---------------------------- MODULE Spec2Model ----------------------------
(***************************************************************************)
(* A model of the Turkey Shoot simulation core: the game state machine of  *)
(* game.py, the level scheduler of levels.py, the player effects of        *)
(* player.py, the enemy of enemies.py, the collision passes of             *)
(* collision.py and the running score of scoring.py.                       *)
(*                                                                         *)
(* Conventions.                                                            *)
(*  - Python floats are modelled as exact rationals <<num, den>> in lowest *)
(*    terms (den > 0), so that 0.9 ** 2 is 81/100.                         *)
(*  - None is the record NoneVal.                                          *)
(*  - Screen positions are not part of the state: the result of every      *)
(*    rect.colliderect(...) test and of every screen-boundary test of a    *)
(*    tick is an input of that tick (the fields of the record "inp").      *)
(*    The exceptions: in SpecSine hist is an enemy's position, in SpecFall *)
(*    the vertical positions of the enemies, in SpecMove the player's.     *)
(*  - pygame.time.get_ticks() is the variable now; the clock only moves    *)
(*    between frames (Frame), by TimeStep, in every state of the game      *)
(*    (by ShootStep in SpecShoot, by FallStep in SpecFall).                *)
(*  - An action is either one step of Game.run (the handling of one event, *)
(*    or an update with the draw and the clock tick that follow it), or    *)
(*    one call of a method of an object of the game (SpecEnemy, SpecLevel, *)
(*    SpecPlayer, SpecEffects, SpecScores, SpecSine, SpecTargets,          *)
(*    SpecLoad, SpecMove): a call leaves the clock as it is and is handed  *)
(*    its current_time as an argument.                                     *)
(*  - Game.run is "while self.running: handle_events(); update(); draw();  *)
(*    clock.tick(FPS)".  looping says that the loop has not been left:     *)
(*    self.running is read once an iteration, after the update, so the     *)
(*    events that follow a quit in the queue are still handled and one     *)
(*    more update runs; an uncaught exception leaves the loop at once.     *)
(*  - buttons_drawn is the set of the attributes menu_buttons,             *)
(*    game_over_buttons and high_score_buttons that exist: only draw sets  *)
(*    them, and a mouse click handled before raises AttributeError.        *)
(*  - Fields named g_* and the variable hist are history (ghost) state:    *)
(*    the code has no such field, they record what a handler did or saw so *)
(*    that properties can be stated.                                       *)
(*                                                                         *)
(* Specifications.                                                         *)
(*    Spec         the game under every input, first MaxSteps TimeSteps    *)
(*    SpecRun      one run up to the end of its first level                *)
(*    SpecLevel    the level scheduler under spawn_next_enemy and          *)
(*                 advance_level, up to level MaxLevel                     *)
(*    SpecEnemy    one enemy under take_damage                             *)
(*    SpecPlayer   the player's stacked effects under apply_powerup_effect *)
(*    SpecCollide  the ticks of a run, recording the bullet-enemy pass     *)
(*    SpecEffects  the player's effects with timed durations               *)
(*    SpecScores   the high-score table under add_high_score               *)
(*    SpecSine     the position of a sine-wave enemy                       *)
(*    SpecTrack    the ticks of a run at the level of the tracking kind    *)
(*    SpecPower    one run on "easy" with powerups, started late           *)
(*    SpecHit      the enemy-player pass of a tick                         *)
(*    SpecTargets  the enemy targets and speeds of the levels              *)
(*    SpecKinds    the ticks of a run started at a later level             *)
(*    SpecLoad     the score manager after load_high_scores                *)
(*    SpecFall     the ticks of a run while its enemies fall               *)
(*    SpecShoot    the fire requests of the first frames of a run          *)
(*    SpecMove     the player's position under move_left/move_right        *)
(*    SpecReset    runs abandoned, lost and restarted                      *)
(***************************************************************************)
EXTENDS Integers, Sequences, FiniteSets, TLC

VARIABLES
    running,                          \* Game.running
    state,                            \* Game.state
    difficulty,                       \* Game.difficulty
    lives,                            \* Game.lives
    current_score,                    \* ScoreManager.current_score
    high_scores,                      \* ScoreManager.high_scores
    player_name,                      \* Game.player_name
    is_high_score_flag,               \* Game.is_high_score
    level_manager,                    \* Game.level_manager (LevelManager or None)
    player,                           \* Game.player (Player or None)
    bullets,                          \* Game.bullets
    enemies,                          \* Game.enemies
    powerups,                         \* Game.powerups
    last_powerup_spawn,               \* Game.last_powerup_spawn
    enemy_speed_modifier,             \* Game.enemy_speed_modifier
    enemy_speed_modifier_expiration,  \* Game.enemy_speed_modifier_expiration
    level_transition_time,            \* Game.level_transition_time
    now,                              \* pygame.time.get_ticks()
    looping,                          \* Game.run is in its while loop
    buttons_drawn,                    \* the button attributes draw has set
    hist                              \* history (ghost): what the last
                                      \* operation of a specification saw

vars == << running, state, difficulty, lives, current_score, high_scores,
           player_name, is_high_score_flag, level_manager, player, bullets,
           enemies, powerups, last_powerup_spawn, enemy_speed_modifier,
           enemy_speed_modifier_expiration, level_transition_time, now,
           looping, buttons_drawn, hist >>

-----------------------------------------------------------------------------
(* Bounds of the model.                                                    *)

\* The clock advances in steps of TimeStep milliseconds.
TimeStep == 750
\* Largest clock value explored by the game specification, in TimeSteps.
MaxSteps == 5
\* Largest clock value explored by the specification of one run, in TimeSteps.
MaxRunSteps == 18
\* Largest number of bullets in Game.bullets in the specification of one run.
RunBullets == 1
\* Largest number of characters typed as a name.
MaxName == 1
\* Largest clock value at which a run is started, in TimeSteps.
MaxStartSteps == 2
\* Iterations of Game.run that show the menu before the click that starts
\* the run of a specification of one run (the first one draws the buttons).
MenuFrames == 1
\* Largest number of enemies in Game.enemies during a tick.
MaxEnemies == 2
\* Largest number of bullets in Game.bullets.
MaxBullets == 2
\* Largest number of powerups in Game.powerups.
MaxPowerups == 1
\* Largest level explored by the scheduler specification.
MaxLevel == 6
\* Largest number of spawn_next_enemy calls of the scheduler specification.
MaxLevelSteps == 165
\* Largest number of pickups of one kind in the player specification.
MaxStack == 3
\* Largest number of update_effects calls of the player specification.
MaxPlayerSteps == 8
\* Largest clock value of the collision specification, in TimeSteps.
MaxCollideSteps == 4
\* Largest time handed to a call of the effects specification, in TimeSteps.
MaxEffectSteps == 4
\* Largest number of add_high_score calls of the scores specification.
MaxAdds == 11
\* Largest number of updates of the enemy of the sine-wave specification.
MaxSineSteps == 3
\* Largest clock value of the track-player specification, in TimeSteps.
MaxTrackSteps == 4
\* Time in the menu before the run of the powerup specification, and the
\* largest clock value of that specification, in TimeSteps.
MenuWait == 11
MaxPowerSteps == 27
\* Largest clock value, in TimeSteps after MenuWait, of the enemy-player
\* pass specification.
MaxHitSteps == 4
\* Largest level of the level-target specification.
MaxTargetLevel == 40
\* The frame time, the start (in frames) and the number of frames of the
\* shooting specification.
ShootStep == 40
ShootStart == 200
MaxShootFrames == 12
\* Largest number of speed-boost pickups of the movement specification.
MaxBoosts == 2
\* Largest clock value, in TimeSteps after MenuWait, of the restart
\* specification.
MaxResetSteps == 3
\* The late level, the frame time, the largest clock value and the largest
\* number of listed enemies of the falling-enemy specification.
MaxFallLevel == 28
FallStep == 17
MaxFallTime == 7900
MaxFallEnemies == 4
\* Largest number of score-manager calls of the loading specification.
MaxLoadCalls == 3
\* Largest level and largest clock value (in TimeSteps) of the enemy-kinds
\* specification.
MaxKindLevel == 8
MaxKindSteps == 3

-----------------------------------------------------------------------------
(* Rationals.                                                              *)

RECURSIVE GCD(_, _)
GCD(a, b) == IF b = 0 THEN a ELSE GCD(b, a % b)

Abs(n) == IF n < 0 THEN -n ELSE n

Rat(n, d) ==
    LET g == GCD(Abs(n), Abs(d))
        s == IF d < 0 THEN -1 ELSE 1
    IN  << (s * n) \div g, (s * d) \div g >>

RMul(a, b) == Rat(a[1] * b[1], a[2] * b[2])

RECURSIVE RPow(_, _)
RPow(a, n) == IF n = 0 THEN <<1, 1>> ELSE RMul(a, RPow(a, n - 1))

\* a <= b
RLe(a, b) == a[1] * b[2] <= b[1] * a[2]

ROne == <<1, 1>>

Min(S) == CHOOSE x \in S : \A y \in S : x <= y

NoneVal == [none |-> TRUE]

-----------------------------------------------------------------------------
(* constants.py                                                            *)

PLAYER_SHOOT_COOLDOWN == 175
BOSS_LEVEL_INTERVAL == 5
MAX_HIGH_SCORES == 10
POWERUP_SPAWN_RATE == 8000
LEVEL_TRANSITION_DURATION == 2000
BASE_COUNT == 10
MIN_ENEMIES == 5
SPEED_LEVEL_STEP == 3
NAME_LIMIT == 15

LEVEL_ENEMY_INCREASE == <<35, 100>>
LEVEL_SPEED_INCREASE == <<2, 10>>
FIRE_RATE_MODIFIER == <<9, 10>>
SPEED_BOOST_MODIFIER == <<11, 10>>
SLOW_ENEMIES_MODIFIER == <<1, 2>>

BOSS == "turkey"

EnemyKinds == { "gravy_boat", "pumpkin_pie", "cranberry", "mashed_potato",
                "stuffing", "green_bean_casserole", "turkey" }

ENEMY_TYPES ==
    [ gravy_boat  |-> [speed |-> <<2, 1>>,   health |-> 4,  points |-> 100, movement |-> "straight"],
      pumpkin_pie |-> [speed |-> <<2, 1>>,   health |-> 2,  points |-> 150, movement |-> "zigzag"],
      cranberry   |-> [speed |-> <<5, 2>>,   health |-> 1,  points |-> 50,  movement |-> "straight"],
      mashed_potato |-> [speed |-> <<2, 1>>, health |-> 3,  points |-> 75,  movement |-> "straight"],
      stuffing    |-> [speed |-> <<3, 2>>,   health |-> 5,  points |-> 200, movement |-> "straight"],
      green_bean_casserole |->
                      [speed |-> <<8, 5>>,   health |-> 20, points |-> 300, movement |-> "track_player"],
      turkey      |-> [speed |-> <<13, 10>>, health |-> 10, points |-> 500, movement |-> "sine_wave"] ]

Difficulties == { "easy", "medium", "hard" }

DIFFICULTY_SETTINGS ==
    [ easy   |-> [lives |-> 5, speed_multiplier |-> <<1, 1>>,
                  enemy_count_multiplier |-> <<1, 1>>,  spawn_rate |-> 1250],
      medium |-> [lives |-> 3, speed_multiplier |-> <<3, 2>>,
                  enemy_count_multiplier |-> <<6, 5>>,  spawn_rate |-> 1000],
      hard   |-> [lives |-> 2, speed_multiplier |-> <<2, 1>>,
                  enemy_count_multiplier |-> <<7, 5>>,  spawn_rate |-> 750] ]

\* ENEMY_UNLOCKS, in the order of sorted(ENEMY_UNLOCKS.items()).
ENEMY_UNLOCKS ==
    << [level |-> 1, types |-> <<"turkey", "cranberry">>],
       [level |-> 2, types |-> <<"pumpkin_pie">>],
       [level |-> 4, types |-> <<"stuffing">>],
       [level |-> 5, types |-> <<"gravy_boat">>],
       [level |-> 6, types |-> <<"mashed_potato">>],
       [level |-> 8, types |-> <<"green_bean_casserole">>] >>

PowerupKinds == { "fire_rate", "extra_life", "speed_boost", "slow_enemies" }

POWERUP_TYPES ==
    [ fire_rate    |-> [effect_type |-> "fire_rate",    duration |-> -1],
      extra_life   |-> [effect_type |-> "extra_life",   duration |-> 0],
      speed_boost  |-> [effect_type |-> "speed_boost",  duration |-> -1],
      slow_enemies |-> [effect_type |-> "slow_enemies", duration |-> 10000] ]


-----------------------------------------------------------------------------
(* levels.py: LevelManager                                                 *)

\* LevelManager.__init__
LevelManager(d) ==
    [ difficulty       |-> d,
      current_level    |-> 1,
      enemies_in_level |-> 0,
      enemies_spawned  |-> 0,
      spawn_rate       |-> DIFFICULTY_SETTINGS[d].spawn_rate,
      last_spawn_time  |-> 0 ]

get_current_level(lm) == lm.current_level

is_boss_level(lm) == lm.current_level % BOSS_LEVEL_INTERVAL = 0

InSeq(x, s) == \E i \in 1..Len(s) : s[i] = x

\* The inner loop of get_available_enemy_types over one unlock entry.
RECURSIVE AddTypes(_, _, _, _)
AddTypes(available, types, i, boss) ==
    IF i > Len(types) THEN available
    ELSE LET t == types[i]
             a == IF t = BOSS
                    THEN (IF boss THEN Append(available, t) ELSE available)
                    ELSE (IF InSeq(t, available) THEN available
                                                 ELSE Append(available, t))
         IN  AddTypes(a, types, i + 1, boss)

\* The outer loop of get_available_enemy_types over the sorted unlock table.
RECURSIVE AddUnlocks(_, _, _)
AddUnlocks(available, k, lm) ==
    IF k > Len(ENEMY_UNLOCKS) THEN available
    ELSE AddUnlocks(IF ENEMY_UNLOCKS[k].level <= lm.current_level
                      THEN AddTypes(available, ENEMY_UNLOCKS[k].types, 1,
                                    is_boss_level(lm))
                      ELSE available,
                    k + 1, lm)

\* get_available_enemy_types without the test of the unlock level (a
\* variant the unlocks are checked against).
get_available_enemy_types_NoThreshold(lm) ==
    AddUnlocks(<< >>, 1, [lm EXCEPT !.current_level =
                             IF is_boss_level(lm) THEN 10 ELSE 11])

get_available_enemy_types(lm) ==
    LET available == AddUnlocks(<< >>, 1, lm)
    IN  IF available # << >> THEN available ELSE << BOSS >>

\* get_speed_multiplier stepping at every level (a variant the steps are
\* checked against).
get_speed_multiplier_EveryLevel(lm) ==
    LET base_multiplier == DIFFICULTY_SETTINGS[lm.difficulty].speed_multiplier
        steps == lm.current_level - 1
        level_multiplier ==
            Rat(LEVEL_SPEED_INCREASE[2] + steps * LEVEL_SPEED_INCREASE[1],
                LEVEL_SPEED_INCREASE[2])
    IN  RMul(base_multiplier, level_multiplier)

get_speed_multiplier(lm) ==
    LET base_multiplier == DIFFICULTY_SETTINGS[lm.difficulty].speed_multiplier
        steps == (lm.current_level - 1) \div SPEED_LEVEL_STEP
        level_multiplier ==
            Rat(LEVEL_SPEED_INCREASE[2] + steps * LEVEL_SPEED_INCREASE[1],
                LEVEL_SPEED_INCREASE[2])
    IN  RMul(base_multiplier, level_multiplier)

\* The levels at which the double-precision product
\* base_count * level_factor * difficulty_factor, whose exact value is an
\* integer, is computed just below that integer, so that int() truncates it
\* to one less (levels up to 46).
FloatTruncatesBelow(d, level) ==
    \/ d = "easy" /\ level \in {7, 13, 15, 25, 29}
    \/ d = "hard" /\ level \in {11}

get_enemies_for_level(lm) ==
    LET m == DIFFICULTY_SETTINGS[lm.difficulty].enemy_count_multiplier
        \* base_count * (1 + (level - 1) * LEVEL_ENEMY_INCREASE) * m
        num == BASE_COUNT
                 * (LEVEL_ENEMY_INCREASE[2]
                      + (lm.current_level - 1) * LEVEL_ENEMY_INCREASE[1])
                 * m[1]
        den == LEVEL_ENEMY_INCREASE[2] * m[2]
        total == (num \div den)
                   - (IF FloatTruncatesBelow(lm.difficulty, lm.current_level)
                        THEN 1 ELSE 0)
        boss_total == IF is_boss_level(lm) THEN total \div 2 + 1 ELSE total
    IN  IF boss_total > MIN_ENEMIES THEN boss_total ELSE MIN_ENEMIES

start_level(lm) ==
    [lm EXCEPT !.enemies_in_level = get_enemies_for_level(lm),
               !.enemies_spawned = 0]

\* can_spawn_enemy without the test of the level's target (a variant the
\* spawn bound is checked against).
can_spawn_enemy_NoTarget(lm, current_time) ==
    current_time - lm.last_spawn_time >= lm.spawn_rate

\* can_spawn_enemy without the test of the spawn interval (a variant the
\* spawn times are checked against).
can_spawn_enemy_NoInterval(lm, current_time) ==
    lm.enemies_spawned < lm.enemies_in_level

can_spawn_enemy(lm, current_time) ==
    IF lm.enemies_spawned >= lm.enemies_in_level THEN FALSE
    ELSE IF current_time - lm.last_spawn_time >= lm.spawn_rate THEN TRUE
    ELSE FALSE

\* A spawn pool that keeps the boss among the kinds of a boss level (a
\* variant the boss rule is checked against).
SpawnPool_WithBoss(lm) ==
    LET available_types == get_available_enemy_types(lm)
    IN  { available_types[i] : i \in 1..Len(available_types) }

\* The kinds random.choice can return in spawn_next_enemy (the forced boss
\* is the only member on the first spawn of a boss level).
SpawnPool(lm) ==
    LET available_types == get_available_enemy_types(lm)
        all == { available_types[i] : i \in 1..Len(available_types) }
    IN  IF is_boss_level(lm) /\ lm.enemies_spawned = 0 THEN { BOSS }
        ELSE IF BOSS \in all THEN all \ { BOSS }
        ELSE all

\* enemies.py: Enemy.__init__ through spawn_enemy; player is the player
\* reference handed to the enemy (None when absent).
Enemy(enemy_type, speed_multiplier, player_ref) ==
    [ type        |-> enemy_type,
      speed       |-> RMul(ENEMY_TYPES[enemy_type].speed, speed_multiplier),
      health      |-> ENEMY_TYPES[enemy_type].health,
      max_health  |-> ENEMY_TYPES[enemy_type].health,
      points      |-> ENEMY_TYPES[enemy_type].points,
      has_player  |-> player_ref # NoneVal,
      active      |-> TRUE,
      g_destroyed |-> 0,      \* times take_damage returned True
      g_credited  |-> 0 ]     \* points this enemy added to a score_gained

spawn_enemy(enemy_type, speed_multiplier, player_ref) ==
    Enemy(enemy_type, speed_multiplier, player_ref)

\* spawn_next_enemy(current_time, player=None) with random.choice returning
\* choice; the result is the scheduler after the call and the enemy
\* returned (None when no enemy is due).
spawn_next_enemy(lm, current_time, player_ref, choice) ==
    IF ~ can_spawn_enemy(lm, current_time)
      THEN [lm |-> lm, enemy |-> NoneVal]
      ELSE [lm |-> [lm EXCEPT !.enemies_spawned = @ + 1,
                              !.last_spawn_time = current_time],
            enemy |-> spawn_enemy(choice, get_speed_multiplier(lm), player_ref)]

\* is_level_complete without the test of the spawn count (a variant the
\* level completion is checked against).
is_level_complete_ActiveOnly(lm, active_enemies_count) ==
    active_enemies_count = 0

is_level_complete(lm, active_enemies_count) ==
    lm.enemies_spawned >= lm.enemies_in_level /\ active_enemies_count = 0

advance_level(lm) == start_level([lm EXCEPT !.current_level = @ + 1])

-----------------------------------------------------------------------------
(* enemies.py: Enemy.take_damage                                           *)

\* take_damage destroying the enemy only below zero health (a variant the
\* health ladder is checked against).
take_damage_Strict(e, damage) ==
    LET h == e.health - damage
    IN  IF h < 0
          THEN [enemy |-> [e EXCEPT !.health = h, !.active = FALSE,
                                    !.g_destroyed = @ + 1],
                destroyed |-> TRUE]
          ELSE [enemy |-> [e EXCEPT !.health = h], destroyed |-> FALSE]

\* The enemy after take_damage(damage) and the value returned.
take_damage(e, damage) ==
    LET h == e.health - damage
    IN  IF h <= 0
          THEN [enemy |-> [e EXCEPT !.health = h, !.active = FALSE,
                                    !.g_destroyed = @ + 1],
                destroyed |-> TRUE]
          ELSE [enemy |-> [e EXCEPT !.health = h], destroyed |-> FALSE]

-----------------------------------------------------------------------------
(* player.py: Player                                                       *)

PERSISTENT == -1

StackableEffects == { "fire_rate", "speed_boost" }

\* Player.__init__ (the fields of the simulation; the position is abstracted)
Player ==
    [ last_shot         |-> 0,
      shoot_cooldown    |-> PLAYER_SHOOT_COOLDOWN,
      active_effects    |-> << >>,     \* {effect_type: expiration_time}
      effect_stacks     |-> << >>,     \* {effect_type: stack_count}
      speed_modifier    |-> ROne,
      cooldown_modifier |-> ROne ]

\* dict[key] = value
DictSet(f, k, v) == [x \in (DOMAIN f) \cup {k} |-> IF x = k THEN v ELSE f[x]]

\* del dict[key] for every key of ks
DictDel(f, ks) == [x \in (DOMAIN f) \ ks |-> f[x]]

\* dict.get(key, default)
DictGet(f, k, default) == IF k \in DOMAIN f THEN f[k] ELSE default

EmptyDict == << >>

\* current_time - last_shot >= shoot_cooldown * cooldown_modifier
can_shoot(p, current_time) ==
    (current_time - p.last_shot) * p.cooldown_modifier[2]
        >= p.shoot_cooldown * p.cooldown_modifier[1]

player_shoot(p, current_time) == [p EXCEPT !.last_shot = current_time]

\* update_modifiers applying the base modifier of an active kind once,
\* whatever its stack count (a variant the stacking is checked against).
update_modifiers_Flat(p, clear) ==
    IF clear
      THEN [p EXCEPT !.speed_modifier = ROne, !.cooldown_modifier = ROne,
                     !.effect_stacks = EmptyDict]
      ELSE [p EXCEPT
              !.speed_modifier =
                  IF "speed_boost" \in DOMAIN p.active_effects
                    THEN SPEED_BOOST_MODIFIER ELSE ROne,
              !.cooldown_modifier =
                  IF "fire_rate" \in DOMAIN p.active_effects
                    THEN FIRE_RATE_MODIFIER ELSE ROne ]

update_modifiers(p, clear) ==
    IF clear
      THEN [p EXCEPT !.speed_modifier = ROne, !.cooldown_modifier = ROne,
                     !.effect_stacks = EmptyDict]
      ELSE [p EXCEPT
              !.speed_modifier =
                  IF "speed_boost" \in DOMAIN p.active_effects
                    THEN RMul(ROne, RPow(SPEED_BOOST_MODIFIER,
                                         DictGet(p.effect_stacks, "speed_boost", 1)))
                    ELSE ROne,
              !.cooldown_modifier =
                  IF "fire_rate" \in DOMAIN p.active_effects
                    THEN RMul(ROne, RPow(FIRE_RATE_MODIFIER,
                                         DictGet(p.effect_stacks, "fire_rate", 1)))
                    ELSE ROne ]

apply_powerup(p, effect_type, duration, current_time) ==
    LET ae == IF duration = PERSISTENT
                THEN DictSet(p.active_effects, effect_type, PERSISTENT)
                ELSE IF duration > 0
                  THEN DictSet(p.active_effects, effect_type, current_time + duration)
                  ELSE p.active_effects
        es == IF effect_type \in StackableEffects
                THEN DictSet(p.effect_stacks, effect_type,
                             IF effect_type \in DOMAIN p.effect_stacks
                               THEN p.effect_stacks[effect_type] + 1
                               ELSE 1)
                ELSE p.effect_stacks
    IN  update_modifiers([p EXCEPT !.active_effects = ae, !.effect_stacks = es],
                         FALSE)

\* A sweep that takes the persistent sentinel for a time (a variant the
\* sweep is checked against).
Expired_WithPersistent(p, current_time) ==
    { effect \in DOMAIN p.active_effects :
        current_time >= p.active_effects[effect] }

\* The effects update_effects(current_time) removes.
Expired(p, current_time) ==
    { effect \in DOMAIN p.active_effects :
        p.active_effects[effect] # PERSISTENT
          /\ current_time >= p.active_effects[effect] }

update_effects(p, current_time) ==
    LET expired == Expired(p, current_time)
        q == [p EXCEPT !.active_effects = DictDel(@, expired)]
    IN  IF expired # {} THEN update_modifiers(q, FALSE) ELSE q

clear_player_effects(p) ==
    update_modifiers([p EXCEPT !.active_effects = EmptyDict], TRUE)


-----------------------------------------------------------------------------
(* projectiles.py, powerups.py                                             *)

\* Bullet.__init__
Bullet == [ active |-> TRUE,
            g_hits |-> 0 ]     \* enemies this bullet has damaged

\* PowerUp.__init__ through spawn_powerup
spawn_powerup(powerup_type) ==
    [ type        |-> powerup_type,
      effect_type |-> POWERUP_TYPES[powerup_type].effect_type,
      duration    |-> POWERUP_TYPES[powerup_type].duration,
      active      |-> TRUE ]

\* The list without the elements at the indices of S (list.remove in a loop
\* over a copy of the list).
RemoveAt(seq, S) ==
    LET F[i \in 0..Len(seq)] ==
            IF i = 0 THEN << >>
            ELSE IF i \in S THEN F[i - 1] ELSE Append(F[i - 1], seq[i])
    IN  F[Len(seq)]

Inactive(seq) == { i \in 1..Len(seq) : ~ seq[i].active }

ActiveCount(seq) == Cardinality({ i \in 1..Len(seq) : seq[i].active })

-----------------------------------------------------------------------------
(* collision.py                                                            *)

\* "if not enemy.is_active(): continue" of the bullet-enemy pass: the enemy
\* is tested against the bullet only when this holds.
EnemyEligible_Any(e) == TRUE

EnemyEligible(e) == e.active

\* The body of "if bullet.rect.colliderect(enemy.rect):" for bullet i and
\* enemy j; r is [bullets, enemies, collisions, score_gained].
BulletHit(r, i, j) ==
    LET td == take_damage(r.enemies[j], 1)
        e  == IF td.destroyed
                THEN [td.enemy EXCEPT !.g_credited = @ + td.enemy.points]
                ELSE td.enemy
    IN  [ bullets      |-> [r.bullets EXCEPT ![i].active = FALSE,
                                             ![i].g_hits = @ + 1],
          enemies      |-> [r.enemies EXCEPT ![j] = e],
          collisions   |-> IF td.destroyed THEN Append(r.collisions, <<i, j>>)
                                           ELSE r.collisions,
          score_gained |-> IF td.destroyed THEN r.score_gained + e.points
                                           ELSE r.score_gained ]

RECURSIVE EnemyLoop(_, _, _, _)

\* What the inner loop does after a hit of bullet i on enemy j: "break".
AfterHit_NoBreak(r, i, j, ov) == EnemyLoop(r, i, j + 1, ov)

AfterHit(r, i, j, ov) == r

\* "for enemy in enemies:" for bullet i, from enemy j on; ov is the set of
\* pairs <<bullet, enemy>> whose rects overlap.
EnemyLoop(r, i, j, ov) ==
    IF j > Len(r.enemies) THEN r
    ELSE IF ~ EnemyEligible(r.enemies[j]) THEN EnemyLoop(r, i, j + 1, ov)
    ELSE IF <<i, j>> \in ov THEN AfterHit(BulletHit(r, i, j), i, j, ov)
    ELSE EnemyLoop(r, i, j + 1, ov)

\* "for bullet in bullets:" from bullet i on.
RECURSIVE BulletLoop(_, _, _)
BulletLoop(r, i, ov) ==
    IF i > Len(r.bullets) THEN r
    ELSE IF ~ r.bullets[i].active THEN BulletLoop(r, i + 1, ov)
    ELSE BulletLoop(EnemyLoop(r, i, 1, ov), i + 1, ov)

check_bullet_enemy_collisions(bs, es, ov) ==
    BulletLoop([bullets |-> bs, enemies |-> es, collisions |-> << >>,
                score_gained |-> 0], 1, ov)

\* check_enemy_player_collision without the return at the first overlap (a
\* variant the pass is checked against).
check_enemy_player_collision_All(es, at_player) ==
    LET S == { j \in 1..Len(es) : es[j].active /\ j \in at_player }
    IN  [ enemies |-> [j \in 1..Len(es) |->
                          IF j \in S THEN [es[j] EXCEPT !.active = FALSE]
                                     ELSE es[j]],
          hit     |-> S # {} ]

\* at_player: the indices of the enemies whose rect overlaps the player's.
check_enemy_player_collision(es, at_player) ==
    LET S == { j \in 1..Len(es) : es[j].active /\ j \in at_player }
    IN  IF S = {} THEN [enemies |-> es, hit |-> FALSE]
        ELSE [enemies |-> [es EXCEPT ![Min(S)].active = FALSE], hit |-> TRUE]

\* check_enemies_reached_bottom that stops at the first escape (a variant
\* the pass is checked against).
check_enemies_reached_bottom_First(es, at_bottom) ==
    LET S == { j \in 1..Len(es) : es[j].active /\ j \in at_bottom }
    IN  IF S = {} THEN [enemies |-> es, count |-> 0]
        ELSE [enemies |-> [es EXCEPT ![Min(S)].active = FALSE], count |-> 1]

\* at_bottom: the indices of the enemies with y >= SCREEN_HEIGHT - 10.
check_enemies_reached_bottom(es, at_bottom) ==
    LET S == { j \in 1..Len(es) : es[j].active /\ j \in at_bottom }
    IN  [ enemies |-> [j \in 1..Len(es) |->
                          IF j \in S THEN [es[j] EXCEPT !.active = FALSE]
                                     ELSE es[j]],
          count   |-> Cardinality(S) ]

\* overlapping: the indices of the powerups whose rect overlaps the
\* player's; collected is the index of the powerup returned, 0 for None.
check_powerup_player_collision(ps, overlapping) ==
    LET S == { k \in 1..Len(ps) : ps[k].active /\ k \in overlapping }
    IN  IF S = {} THEN [powerups |-> ps, collected |-> 0]
        ELSE [powerups |-> [ps EXCEPT ![Min(S)].active = FALSE],
              collected |-> Min(S)]

-----------------------------------------------------------------------------
(* scoring.py: ScoreManager                                                *)

add_points(score, points) == score + points

reset_score == 0

\* self.high_scores.get(difficulty, [])
get_high_scores(hs, d) == DictGet(hs, d, << >>)

\* is_high_score that lets a score equal to the lowest entry of a full
\* table qualify (a variant the agreement with add_high_score is checked
\* against).
is_high_score_TiesQualify(hs, score, d) ==
    LET scores == get_high_scores(hs, d)
    IN  IF Len(scores) < MAX_HIGH_SCORES THEN TRUE
        ELSE IF scores # << >> /\ score >= scores[Len(scores)].score THEN TRUE
        ELSE FALSE

is_high_score(hs, score, d) ==
    LET scores == get_high_scores(hs, d)
    IN  IF Len(scores) < MAX_HIGH_SCORES THEN TRUE
        ELSE IF scores # << >> /\ score > scores[Len(scores)].score THEN TRUE
        ELSE FALSE

\* rec inserted into a list sorted by score, descending, after the records
\* of an equal or higher score.
InsertDesc(sorted, rec) ==
    LET k == Cardinality({ i \in 1..Len(sorted) : sorted[i].score >= rec.score })
    IN  SubSeq(sorted, 1, k) \o << rec >> \o SubSeq(sorted, k + 1, Len(sorted))

\* list.sort(key=score, reverse=True): a stable sort, descending.
RECURSIVE SortDesc(_)
SortDesc(seq) ==
    IF seq = << >> THEN << >>
    ELSE InsertDesc(SortDesc(SubSeq(seq, 1, Len(seq) - 1)), seq[Len(seq)])

\* add_high_score without the cut to MAX_HIGH_SCORES records (a variant the
\* table is checked against).
add_high_score_NoCut(hs, name, score, d, level) ==
    LET old == get_high_scores(hs, d)
        new_score == [name |-> name, score |-> score, level |-> level]
    IN  DictSet(hs, d, SortDesc(Append(old, new_score)))

\* The table after add_high_score (the record's date and the file written
\* by save_high_scores are not modelled).
add_high_score(hs, name, score, d, level) ==
    LET old == get_high_scores(hs, d)
        new_score == [name |-> name, score |-> score, level |-> level]
        sorted == SortDesc(Append(old, new_score))
        kept == SubSeq(sorted, 1,
                       IF Len(sorted) < MAX_HIGH_SCORES THEN Len(sorted)
                                                        ELSE MAX_HIGH_SCORES)
    IN  DictSet(hs, d, kept)


-----------------------------------------------------------------------------
(* game.py: Game                                                           *)

\* The fields of the game (and of its score manager and clock) as a record.
GameRec ==
    [ running |-> running, state |-> state, difficulty |-> difficulty,
      lives |-> lives, current_score |-> current_score,
      high_scores |-> high_scores, player_name |-> player_name,
      is_high_score_flag |-> is_high_score_flag,
      level_manager |-> level_manager, player |-> player,
      bullets |-> bullets, enemies |-> enemies, powerups |-> powerups,
      last_powerup_spawn |-> last_powerup_spawn,
      enemy_speed_modifier |-> enemy_speed_modifier,
      enemy_speed_modifier_expiration |-> enemy_speed_modifier_expiration,
      level_transition_time |-> level_transition_time,
      now |-> now, looping |-> looping, buttons_drawn |-> buttons_drawn ]

\* Game.__init__, with the table load_high_scores returned, as Game.run
\* enters its loop: __init__ sets none of menu_buttons, game_over_buttons
\* and high_score_buttons.
NewGame(table) ==
    [ running |-> TRUE, state |-> "menu", difficulty |-> "medium",
      lives |-> 0, current_score |-> 0,
      high_scores |-> table, player_name |-> << >>,
      is_high_score_flag |-> FALSE,
      level_manager |-> NoneVal, player |-> NoneVal,
      bullets |-> << >>, enemies |-> << >>, powerups |-> << >>,
      last_powerup_spawn |-> 0,
      enemy_speed_modifier |-> ROne,
      enemy_speed_modifier_expiration |-> 0,
      level_transition_time |-> 0,
      now |-> 0, looping |-> TRUE, buttons_drawn |-> {} ]

\* The game after the given number (at least one) of iterations of Game.run
\* in the menu with no event: the menu is drawn, the clock has moved on.
MenuShown(table, frames) ==
    [NewGame(table) EXCEPT !.now = frames * TimeStep,
                           !.buttons_drawn = {"menu_buttons"}]

\* reset_game without reset_score (a variant the score reset is checked
\* against).
reset_game_KeepScore(g, d) ==
    [g EXCEPT !.difficulty = d,
              !.level_manager = start_level(LevelManager(d)),
              !.player = Player,
              !.bullets = << >>,
              !.enemies = << >>,
              !.powerups = << >>,
              !.lives = DIFFICULTY_SETTINGS[d].lives,
              !.last_powerup_spawn = 0,
              !.enemy_speed_modifier = ROne,
              !.enemy_speed_modifier_expiration = 0,
              !.state = "playing"]

\* reset_game that leaves the global enemy speed modifier and its
\* expiration as they are (a variant the fresh start is checked against).
reset_game_KeepModifier(g, d) ==
    [g EXCEPT !.difficulty = d,
              !.level_manager = start_level(LevelManager(d)),
              !.player = Player,
              !.bullets = << >>,
              !.enemies = << >>,
              !.powerups = << >>,
              !.current_score = reset_score,
              !.lives = DIFFICULTY_SETTINGS[d].lives,
              !.last_powerup_spawn = 0,
              !.state = "playing"]

reset_game(g, d) ==
    [g EXCEPT !.difficulty = d,
              !.level_manager = start_level(LevelManager(d)),
              !.player = Player,
              !.bullets = << >>,
              !.enemies = << >>,
              !.powerups = << >>,
              !.current_score = reset_score,
              !.lives = DIFFICULTY_SETTINGS[d].lives,
              !.last_powerup_spawn = 0,
              !.enemy_speed_modifier = ROne,
              !.enemy_speed_modifier_expiration = 0,
              !.state = "playing"]

\* shoot without the cooldown test (a variant the spacing of the bullets is
\* checked against).
shoot_NoCooldown(g) ==
    IF g.player # NoneVal
      THEN [g EXCEPT !.bullets = Append(@, Bullet),
                     !.player = player_shoot(@, g.now)]
      ELSE g

shoot(g) ==
    IF g.player # NoneVal /\ can_shoot(g.player, g.now)
      THEN [g EXCEPT !.bullets = Append(@, Bullet),
                     !.player = player_shoot(@, g.now)]
      ELSE g

game_over(g) ==
    IF is_high_score(g.high_scores, g.current_score, g.difficulty)
      THEN [g EXCEPT !.is_high_score_flag = TRUE,
                     !.player_name = << >>,
                     !.state = "name_input"]
      ELSE [g EXCEPT !.is_high_score_flag = FALSE,
                     !.state = "game_over"]

lose_life(g) ==
    LET g1 == [g EXCEPT !.lives = @ - 1]
    IN  IF g1.lives <= 0 THEN game_over(g1) ELSE g1

start_level_transition(g) ==
    [g EXCEPT !.state = "level_transition", !.level_transition_time = g.now]

\* update_level_transition without the test of the elapsed time (a variant
\* the transition is checked against).
update_level_transition_NoWait(g) ==
    [g EXCEPT !.level_manager = advance_level(@), !.state = "playing"]

update_level_transition(g) ==
    IF g.now - g.level_transition_time >= LEVEL_TRANSITION_DURATION
      THEN [g EXCEPT !.level_manager = advance_level(@), !.state = "playing"]
      ELSE g

\* apply_powerup_effect that hands every kind to the player as well (a
\* variant the extra life is checked against).
apply_powerup_effect_ToPlayer(g, powerup, current_time) ==
    LET g1 == [g EXCEPT !.player = apply_powerup(@, powerup.effect_type,
                                                 powerup.duration, current_time)]
    IN  IF powerup.effect_type = "extra_life"
          THEN [g1 EXCEPT !.lives = @ + 1]
        ELSE IF powerup.effect_type = "slow_enemies"
          THEN [g1 EXCEPT
                  !.enemy_speed_modifier = SLOW_ENEMIES_MODIFIER,
                  !.enemy_speed_modifier_expiration = current_time + powerup.duration,
                  !.enemies = [j \in 1..Len(g.enemies) |->
                                  [g.enemies[j] EXCEPT
                                      !.speed = RMul(@, SLOW_ENEMIES_MODIFIER)]]]
        ELSE g1

apply_powerup_effect(g, powerup, current_time) ==
    IF powerup.effect_type = "extra_life"
      THEN [g EXCEPT !.lives = @ + 1]
    ELSE IF powerup.effect_type = "slow_enemies"
      THEN [g EXCEPT
              !.enemy_speed_modifier = SLOW_ENEMIES_MODIFIER,
              !.enemy_speed_modifier_expiration = current_time + powerup.duration,
              !.enemies = [j \in 1..Len(g.enemies) |->
                              [g.enemies[j] EXCEPT
                                  !.speed = RMul(@, SLOW_ENEMIES_MODIFIER)]]]
    ELSE [g EXCEPT !.player = apply_powerup(@, powerup.effect_type,
                                            powerup.duration, current_time)]

(* update_playing, in the order of the code.  The inputs of a tick:        *)
(*   space        the fire key is held                                     *)
(*   bullets_off  the number of oldest bullets that leave the screen       *)
(*   ptype        the kind random.choice picks for a powerup               *)
(*   powerups_off the powerups that leave the screen                       *)
(*   at_powerup   the powerups whose rect overlaps the player's            *)
(*   etype        the kind random.choice picks for an enemy                *)
(*   enemies_off  the enemies that leave the screen (y > SCREEN_HEIGHT)    *)
(*   ov           the pairs <<bullet, enemy>> whose rects overlap          *)
(*   at_player    the enemies whose rect overlaps the player's             *)
(*   at_bottom    the enemies with y >= SCREEN_HEIGHT - 10                 *)

\* tick_player without the slow-enemies expiry (a variant the expiry is
\* checked against).
tick_player_NoExpiry(g, inp) ==
    LET current_time == g.now
        g1 == [g EXCEPT !.player = update_effects(@, current_time)]
        g3 == IF inp.space THEN shoot(g1) ELSE g1
    IN  [g3 EXCEPT !.bullets =
            RemoveAt(@, { i \in 1..Len(@) : i <= inp.bullets_off }
                          \cup Inactive(@))]

\* Lines 203-226: effects, the slow-enemies expiry, the fire key, bullets.
tick_player(g, inp) ==
    LET current_time == g.now
        g1 == [g EXCEPT !.player = update_effects(@, current_time)]
        g2 == IF g1.enemy_speed_modifier_expiration > 0
                   /\ current_time >= g1.enemy_speed_modifier_expiration
                THEN [g1 EXCEPT !.enemy_speed_modifier = ROne,
                                !.enemy_speed_modifier_expiration = 0]
                ELSE g1
        g3 == IF inp.space THEN shoot(g2) ELSE g2
    IN  [g3 EXCEPT !.bullets =
            RemoveAt(@, { i \in 1..Len(@) : i <= inp.bullets_off }
                          \cup Inactive(@))]

PowerupDue(g) == g.now - g.last_powerup_spawn >= POWERUP_SPAWN_RATE

\* Lines 228-244: powerup spawn, update, collection.
tick_powerups(g, inp) ==
    LET current_time == g.now
        g1 == IF PowerupDue(g)
                THEN [g EXCEPT !.powerups = Append(@, spawn_powerup(inp.ptype)),
                               !.last_powerup_spawn = current_time]
                ELSE g
        g2 == [g1 EXCEPT !.powerups =
                  RemoveAt(@, inp.powerups_off \cup Inactive(@))]
        c  == check_powerup_player_collision(g2.powerups, inp.at_powerup)
    IN  IF c.collected # 0
          THEN [apply_powerup_effect(g2, c.powerups[c.collected], current_time)
                  EXCEPT !.powerups = RemoveAt(c.powerups, {c.collected})]
          ELSE g2

\* tick_enemies without the slow modifier on the spawned enemy (a variant
\* the spawn speed is checked against).
tick_enemies_NoSlow(g, inp) ==
    LET current_time == g.now
        sp == spawn_next_enemy(g.level_manager, current_time, NoneVal, inp.etype)
        g1 == IF sp.enemy # NoneVal
                THEN [g EXCEPT !.level_manager = sp.lm,
                               !.enemies = Append(@, sp.enemy)]
                ELSE [g EXCEPT !.level_manager = sp.lm]
    IN  [g1 EXCEPT !.enemies = RemoveAt(@, inp.enemies_off \cup Inactive(@))]

\* Lines 246-257: enemy spawn and update.
tick_enemies(g, inp) ==
    LET current_time == g.now
        sp == spawn_next_enemy(g.level_manager, current_time, NoneVal, inp.etype)
        g1 == IF sp.enemy # NoneVal
                THEN [g EXCEPT
                        !.level_manager = sp.lm,
                        !.enemies = Append(@,
                            [sp.enemy EXCEPT
                                !.speed = RMul(@, g.enemy_speed_modifier)])]
                ELSE [g EXCEPT !.level_manager = sp.lm]
    IN  [g1 EXCEPT !.enemies = RemoveAt(@, inp.enemies_off \cup Inactive(@))]

\* tick_collisions that credits the enemy the player collides with (a
\* variant the score is checked against).
tick_collisions_PlayerPoints(g, inp) ==
    LET c  == check_bullet_enemy_collisions(g.bullets, g.enemies, inp.ov)
        g1 == [g EXCEPT !.bullets = c.bullets, !.enemies = c.enemies,
                        !.current_score =
                            IF c.score_gained > 0
                              THEN add_points(@, c.score_gained) ELSE @]
        p  == check_enemy_player_collision(g1.enemies, inp.at_player)
        S  == { j \in 1..Len(g1.enemies) :
                  g1.enemies[j].active /\ ~ p.enemies[j].active }
        g2 == [g1 EXCEPT !.enemies = p.enemies,
                         !.current_score =
                            IF S = {} THEN @
                            ELSE add_points(@, g1.enemies[Min(S)].points)]
        g3 == IF p.hit THEN lose_life(g2) ELSE g2
        b  == check_enemies_reached_bottom(g3.enemies, inp.at_bottom)
        g4 == [g3 EXCEPT !.enemies = b.enemies]
        g5 == IF b.count > 0 THEN lose_life(g4) ELSE g4
        active_enemies == ActiveCount(g5.enemies)
    IN  IF is_level_complete(g5.level_manager, active_enemies)
          THEN start_level_transition(g5)
          ELSE g5

\* Lines 259-276: the collision passes, life loss, level completion.
tick_collisions(g, inp) ==
    LET c  == check_bullet_enemy_collisions(g.bullets, g.enemies, inp.ov)
        g1 == [g EXCEPT !.bullets = c.bullets, !.enemies = c.enemies,
                        !.current_score =
                            IF c.score_gained > 0
                              THEN add_points(@, c.score_gained) ELSE @]
        p  == check_enemy_player_collision(g1.enemies, inp.at_player)
        g2 == [g1 EXCEPT !.enemies = p.enemies]
        g3 == IF p.hit THEN lose_life(g2) ELSE g2
        b  == check_enemies_reached_bottom(g3.enemies, inp.at_bottom)
        g4 == [g3 EXCEPT !.enemies = b.enemies]
        g5 == IF b.count > 0 THEN lose_life(g4) ELSE g4
        active_enemies == ActiveCount(g5.enemies)
    IN  IF is_level_complete(g5.level_manager, active_enemies)
          THEN start_level_transition(g5)
          ELSE g5

update_playing(g, inp) ==
    tick_collisions(tick_enemies(tick_powerups(tick_player(g, inp), inp), inp), inp)

\* Game.update clearing the enemies in the states that do not run the
\* simulation (a variant the idle states are checked against).
update_IdleClears(g, inp) ==
    IF g.state = "playing" THEN update_playing(g, inp)
    ELSE IF g.state = "level_transition" THEN update_level_transition(g)
    ELSE [g EXCEPT !.enemies = << >>]

\* Game.update
update(g, inp) ==
    IF g.state = "playing" THEN update_playing(g, inp)
    ELSE IF g.state = "level_transition" THEN update_level_transition(g)
    ELSE g

\* An exception that no handler catches leaves Game.run.
Raise(g) == [g EXCEPT !.looping = FALSE]

\* handle_menu_events: a click on the button named (on no button:
\* "none"); self.menu_buttons raises AttributeError before the first draw
\* of the menu.
handle_menu_events(g, button) ==
    IF "menu_buttons" \notin g.buttons_drawn THEN Raise(g)
    ELSE IF button \in Difficulties THEN reset_game(g, button)
    ELSE IF button = "high_scores" THEN [g EXCEPT !.state = "high_scores"]
    ELSE IF button = "quit" THEN [g EXCEPT !.running = FALSE]
    ELSE g

\* handle_playing_events: a KEYDOWN of the key named
handle_playing_events(g, key) ==
    IF key = "space" THEN shoot(g)
    ELSE IF key = "escape" THEN [g EXCEPT !.state = "menu"]
    ELSE g

handle_game_over_events(g, button) ==
    IF "game_over_buttons" \notin g.buttons_drawn THEN Raise(g)
    ELSE IF button = "retry" THEN reset_game(g, g.difficulty)
    ELSE IF button = "menu" THEN [g EXCEPT !.state = "menu"]
    ELSE g

handle_high_scores_events(g, button) ==
    IF "high_score_buttons" \notin g.buttons_drawn THEN Raise(g)
    ELSE IF button = "back" THEN [g EXCEPT !.state = "menu"]
    ELSE g

\* handle_events: the event pygame.QUIT, in every state (the handler of the
\* state then ignores it).
handle_quit(g) == [g EXCEPT !.running = FALSE]

\* Game.draw: the screens with buttons keep them in an attribute.
draw(g) ==
    [g EXCEPT !.buttons_drawn =
        @ \cup (IF g.state = "menu" THEN {"menu_buttons"}
                ELSE IF g.state = "game_over" THEN {"game_over_buttons"}
                ELSE IF g.state = "high_scores" THEN {"high_score_buttons"}
                ELSE {})]

\* handle_name_input_events: a KEYDOWN of "return", "backspace" or of the
\* printable character key
handle_name_input_events(g, key) ==
    IF key = "return"
      THEN IF g.player_name # << >>
             THEN [g EXCEPT
                     !.high_scores =
                         add_high_score(@, g.player_name, g.current_score,
                                        g.difficulty,
                                        get_current_level(g.level_manager)),
                     !.state = "game_over"]
             ELSE g
    ELSE IF key = "backspace"
      THEN [g EXCEPT !.player_name =
                        IF @ = << >> THEN @ ELSE SubSeq(@, 1, Len(@) - 1)]
    ELSE IF Len(g.player_name) < NAME_LIMIT
      THEN [g EXCEPT !.player_name = Append(@, key)]
    ELSE g


-----------------------------------------------------------------------------
(* The game as a state machine: Game.run calls handle_events, update and   *)
(* draw in turn; every event is one step, and the update with the draw and *)
(* the clock tick that follow it is one step.                              *)

SetGame(g) ==
    /\ running' = g.running
    /\ state' = g.state
    /\ difficulty' = g.difficulty
    /\ lives' = g.lives
    /\ current_score' = g.current_score
    /\ high_scores' = g.high_scores
    /\ player_name' = g.player_name
    /\ is_high_score_flag' = g.is_high_score_flag
    /\ level_manager' = g.level_manager
    /\ player' = g.player
    /\ bullets' = g.bullets
    /\ enemies' = g.enemies
    /\ powerups' = g.powerups
    /\ last_powerup_spawn' = g.last_powerup_spawn
    /\ enemy_speed_modifier' = g.enemy_speed_modifier
    /\ enemy_speed_modifier_expiration' = g.enemy_speed_modifier_expiration
    /\ level_transition_time' = g.level_transition_time
    /\ now' = g.now
    /\ looping' = g.looping
    /\ buttons_drawn' = g.buttons_drawn

InitGame(g) ==
    /\ running = g.running
    /\ state = g.state
    /\ difficulty = g.difficulty
    /\ lives = g.lives
    /\ current_score = g.current_score
    /\ high_scores = g.high_scores
    /\ player_name = g.player_name
    /\ is_high_score_flag = g.is_high_score_flag
    /\ level_manager = g.level_manager
    /\ player = g.player
    /\ bullets = g.bullets
    /\ enemies = g.enemies
    /\ powerups = g.powerups
    /\ last_powerup_spawn = g.last_powerup_spawn
    /\ enemy_speed_modifier = g.enemy_speed_modifier
    /\ enemy_speed_modifier_expiration = g.enemy_speed_modifier_expiration
    /\ level_transition_time = g.level_transition_time
    /\ now = g.now
    /\ looping = g.looping
    /\ buttons_drawn = g.buttons_drawn

\* The history of the game specifications: the score the run before the
\* current one ended with (None before the first run).

\* load_high_scores: no file, or a file whose "hard" table is full.
EmptyTable == [easy |-> << >>, medium |-> << >>, hard |-> << >>]

FullHardTable ==
    [EmptyTable EXCEPT !.hard =
        [i \in 1..MAX_HIGH_SCORES |-> [name |-> <<"Z">>, score |-> 50, level |-> 1]]]

InitialTables == { EmptyTable, FullHardTable }

Init ==
    /\ \E table \in InitialTables : InitGame(NewGame(table))
    /\ hist = NoneVal

\* Game.run, the rest of an iteration whose update gave g: draw, then
\* clock.tick(FPS) lets TimeStep pass (in every state, up to horizon
\* TimeSteps), then the loop goes on if self.running.
Frame(g, horizon) ==
    /\ g.now + TimeStep <= horizon * TimeStep
    /\ SetGame([draw(g) EXCEPT !.now = @ + TimeStep, !.looping = g.running])

\* The same with a frame time of step milliseconds, up to the clock value
\* limit.
FrameOf(g, step, limit) ==
    /\ g.now + step <= limit
    /\ SetGame([draw(g) EXCEPT !.now = @ + step, !.looping = g.running])

\* The inputs of a tick that fix the length of the lists of the passes.
EarlyInputs(g) ==
    [ space        : BOOLEAN,
      bullets_off  : IF g.bullets # << >> THEN {0, 1} ELSE {0},
      ptype        : IF PowerupDue(g) THEN PowerupKinds ELSE {"fire_rate"},
      powerups_off : IF g.powerups # << >> THEN {{}, {1}} ELSE {{}},
      etype        : IF can_spawn_enemy(g.level_manager, g.now)
                       THEN SpawnPool(g.level_manager) ELSE {"cranberry"},
      \* No enemy of the levels explored moves more than 10 pixels a tick:
      \* none passes from above SCREEN_HEIGHT - 10 to below SCREEN_HEIGHT.
      enemies_off  : {{}} ]

WithLate(e, at_powerup, ov, at_player, at_bottom) ==
    [ space |-> e.space, bullets_off |-> e.bullets_off, ptype |-> e.ptype,
      powerups_off |-> e.powerups_off, etype |-> e.etype,
      enemies_off |-> e.enemies_off,
      at_powerup |-> at_powerup, ov |-> ov,
      at_player |-> at_player, at_bottom |-> at_bottom ]

\* The state before the collision passes, no powerup being collected.
BeforePasses(g, e) ==
    LET inp == WithLate(e, {}, {}, {}, {})
    IN  tick_enemies(tick_powerups(tick_player(g, inp), inp), inp)

\* An enemy overlaps the player (whose rect ends at SCREEN_HEIGHT - 10), has
\* reached the bottom (y >= SCREEN_HEIGHT - 10), or neither.
Fates == { "none", "player", "bottom" }

\* The enemies and powerups that are not spawned by the tick that starts in
\* g, among the first n of their list before the passes: the one spawned by
\* the tick is the last of its list, above the screen (y = -height,
\* y = -radius), away from the player and from the bottom.
OldEnemies(g, n) ==
    1..(IF can_spawn_enemy(g.level_manager, g.now) THEN n - 1 ELSE n)

OldPowerups(g, n) == 1..(IF PowerupDue(g) THEN n - 1 ELSE n)

\* What the bullet-enemy pass of a tick is handed (line 259).
CollideSeen(pre, inp) ==
    [ bullets |-> pre.bullets, enemies |-> pre.enemies, ov |-> inp.ov,
      score |-> pre.current_score ]

\* What the enemy-player pass and the bottom pass of a tick are handed
\* (lines 264 and 268): the enemies before and after the bullet-enemy pass,
\* those overlapping the player and those at the bottom, the lives and the
\* score before the passes.
HitSeen(pre, inp) ==
    [ before    |-> pre.enemies,
      enemies   |-> check_bullet_enemy_collisions(pre.bullets, pre.enemies,
                                                  inp.ov).enemies,
      at_player |-> inp.at_player,
      at_bottom |-> inp.at_bottom,
      lives     |-> pre.lives,
      score     |-> pre.current_score ]

\* One iteration of Game.run in a run in progress: the update, its early
\* inputs drawn from E, with at most max_bullets bullets and MaxEnemies
\* enemies in the passes, then the rest of the frame.  pre is the game as
\* the update has it at line 259, after the powerup collection and the
\* enemy updates and before the collision passes, inp the inputs of the
\* update: the history becomes CollideSeen(pre, inp) when record is
\* "collide", HitSeen(pre, inp) when it is "hit", and stays otherwise.
TickWith(E, max_bullets, horizon, record) ==
    /\ looping
    /\ state = "playing"
    /\ \E e \in E :
         LET b == BeforePasses(GameRec, e)
             nb == Len(b.bullets)
             ne == Len(b.enemies)
             np == Len(b.powerups)
         IN  /\ nb <= max_bullets
             /\ ne <= MaxEnemies
             /\ \E at_powerup \in SUBSET OldPowerups(GameRec, np),
                   ov \in SUBSET ((1..nb) \X (1..ne)),
                   fate \in [OldEnemies(GameRec, ne) -> Fates] :
                  LET inp == WithLate(e, at_powerup, ov,
                                      { j \in DOMAIN fate : fate[j] = "player" },
                                      { j \in DOMAIN fate : fate[j] = "bottom" })
                      pre == tick_enemies(tick_powerups(tick_player(GameRec, inp),
                                                        inp), inp)
                      g == update(GameRec, inp)
                  IN  /\ Len(g.powerups) <= MaxPowerups
                      /\ Frame(g, horizon)
                      /\ hist' = IF record = "collide" THEN CollideSeen(pre, inp)
                                 ELSE IF record = "hit" THEN HitSeen(pre, inp)
                                 ELSE hist

\* One iteration of Game.run in a run in progress.
PlayingTick(E, max_bullets, horizon) ==
    TickWith(E, max_bullets, horizon, "none")

TransitionTick(horizon) ==
    /\ looping
    /\ state = "level_transition"
    /\ Frame(update(GameRec, NoneVal), horizon)
    /\ UNCHANGED hist

\* One iteration of Game.run in the states that do not run the simulation.
IdleTick(horizon) ==
    /\ looping
    /\ state \notin {"playing", "level_transition"}
    /\ Frame(update(GameRec, NoneVal), horizon)
    /\ UNCHANGED hist

MenuButtons == Difficulties \cup {"high_scores", "quit"}

\* The events of a queue are handled while Game.run is in its loop, also
\* after one of them has cleared self.running.

\* A click on one of the given menu buttons; a run is started while the
\* clock is at most start_horizon TimeSteps.
MenuClick(buttons, start_horizon) ==
    /\ looping
    /\ state = "menu"
    /\ \E button \in buttons :
         LET g == handle_menu_events(GameRec, button)
         IN  /\ button \in Difficulties => now <= start_horizon * TimeStep
             /\ SetGame(g)
             /\ hist' = IF g.state = "playing"
                          THEN [previous_score |-> current_score] ELSE hist

GameOverClick(start_horizon) ==
    /\ looping
    /\ state = "game_over"
    /\ \E button \in {"retry", "menu"} :
         LET g == handle_game_over_events(GameRec, button)
         IN  /\ button = "retry" => now <= start_horizon * TimeStep
             /\ SetGame(g)
             /\ hist' = IF g.state = "playing"
                          THEN [previous_score |-> current_score] ELSE hist

HighScoresEvent ==
    /\ looping
    /\ state = "high_scores"
    /\ SetGame(handle_high_scores_events(GameRec, "back"))
    /\ UNCHANGED hist

\* The window is closed.
QuitEvent ==
    /\ looping
    /\ SetGame(handle_quit(GameRec))
    /\ UNCHANGED hist

NameInputEvent ==
    /\ looping
    /\ state = "name_input"
    /\ \E key \in {"return", "backspace", "A"} :
         /\ key = "A" => Len(player_name) < MaxName
         /\ SetGame(handle_name_input_events(GameRec, key))
    /\ UNCHANGED hist

-----------------------------------------------------------------------------
(* Spec: the game under every input, over the first MaxSteps TimeSteps (no *)
(* level is completed that early: SpecRun covers the level transition).    *)

UpdatePlaying == PlayingTick(EarlyInputs(GameRec), MaxBullets, MaxSteps)

MenuEvent == MenuClick(MenuButtons, MaxStartSteps)

GameOverEvent == GameOverClick(MaxStartSteps)

UpdateIdle == IdleTick(MaxSteps)

PlayingEvent ==
    /\ looping
    /\ state = "playing"
    /\ \E key \in {"space", "escape"} :
         /\ key = "space" => Len(bullets) < MaxBullets
         /\ SetGame(handle_playing_events(GameRec, key))
    /\ UNCHANGED hist

Next ==
    \/ UpdatePlaying
    \/ UpdateIdle
    \/ MenuEvent
    \/ PlayingEvent
    \/ GameOverEvent
    \/ HighScoresEvent
    \/ NameInputEvent
    \/ QuitEvent

Spec == Init /\ [][Next]_vars

-----------------------------------------------------------------------------
(* SpecRun: one run on "medium" or "hard", started from the menu within    *)
(* MenuFrames TimeSteps of the program's start, to its end or to the next  *)
(* level, over MaxRunSteps TimeSteps.  The player holds                    *)
(* the fire key and never leaves the run, every powerup spawned is of the  *)
(* fire-rate kind, and the exploration ends with the run.                  *)

RunInputs(g) ==
    [ space        : {TRUE},
      bullets_off  : IF g.bullets # << >> THEN {0, 1} ELSE {0},
      ptype        : {"fire_rate"},
      powerups_off : IF g.powerups # << >> THEN {{}, {1}} ELSE {{}},
      etype        : IF can_spawn_enemy(g.level_manager, g.now)
                       THEN SpawnPool(g.level_manager) ELSE {"cranberry"},
      enemies_off  : {{}} ]

RunUpdatePlaying == PlayingTick(RunInputs(GameRec), RunBullets, MaxRunSteps)

RunUpdateTransition == TransitionTick(MaxRunSteps)

RunUpdateIdle == IdleTick(MaxRunSteps)

RunMenuEvent == MenuClick(MenuButtons \ {"easy"}, MenuFrames)

RunNext ==
    \/ RunUpdatePlaying
    \/ RunUpdateTransition
    \/ RunUpdateIdle
    \/ RunMenuEvent

SpecRun == Init /\ [][RunNext]_vars

-----------------------------------------------------------------------------
(* SpecEnemy: one enemy of any kind, created by spawn_enemy with the speed *)
(* multiplier of any level up to MaxLevel of the run's difficulty, takes   *)
(* one damage at a time (Enemy.take_damage, as the bullet-enemy pass calls *)
(* it) while it is active.  hist is the enemy with the history of the      *)
(* calls: the number of take_damage calls (hits), how many of them         *)
(* returned True (destroyed), and the value the last one returned (last).  *)

\* The scheduler of a run on difficulty d at the given level.
RECURSIVE LevelAt(_, _)
LevelAt(d, level) ==
    IF level <= 1 THEN start_level(LevelManager(d))
    ELSE advance_level(LevelAt(d, level - 1))

EnemyInit ==
    /\ \E d \in Difficulties :
         InitGame(reset_game(MenuShown(EmptyTable, MenuFrames), d))
    /\ hist = NoneVal

\* spawn_enemy(enemy_type, speed_multiplier): the enemy returned, which is
\* in no list of the game.
EnemySpawn ==
    /\ hist = NoneVal
    /\ \E enemy_type \in EnemyKinds, level \in 1..MaxLevel :
         hist' = [ enemy     |-> spawn_enemy(enemy_type,
                                    get_speed_multiplier(LevelAt(difficulty, level)),
                                    NoneVal),
                   hits      |-> 0,
                   destroyed |-> 0,
                   last      |-> FALSE ]
    /\ SetGame(GameRec)

\* enemy.take_damage() on the enemy while it is active.
EnemyHit ==
    /\ hist # NoneVal
    /\ EnemyEligible(hist.enemy)
    /\ LET td == take_damage(hist.enemy, 1)
       IN  hist' = [ enemy     |-> td.enemy,
                     hits      |-> hist.hits + 1,
                     destroyed |-> hist.destroyed
                                     + (IF td.destroyed THEN 1 ELSE 0),
                     last      |-> td.destroyed ]
    /\ SetGame(GameRec)

EnemyNext ==
    \/ EnemySpawn
    \/ EnemyHit

SpecEnemy == EnemyInit /\ [][EnemyNext]_vars

\* C6: an enemy of catalog health H that has taken k < H hits of 1 damage
\* is active with health H - k (health 1 after H - 1 hits) and no call has
\* returned "destroyed"; the H-th hit makes it inactive and is the one call
\* that returns "destroyed"; its health never exceeds H.
C6_HealthLadder ==
    hist # NoneVal =>
        LET e == hist.enemy
            H == ENEMY_TYPES[e.type].health
            k == hist.hits
        IN  /\ e.health <= H
            /\ e.health = H - k
            /\ k < H => e.active /\ hist.destroyed = 0 /\ ~ hist.last
            /\ k = H - 1 => e.active /\ e.health = 1
            /\ k >= H => k = H /\ ~ e.active /\ hist.destroyed = 1 /\ hist.last

\* A stuffing (catalog health 5) destroyed by its fifth hit.
C6_Witness ==
    /\ hist # NoneVal
    /\ hist.enemy.type = "stuffing"
    /\ hist.hits = 5
    /\ hist.last
    /\ ~ hist.enemy.active

-----------------------------------------------------------------------------
(* SpecLevel: the level scheduler of a run under its own methods, up to    *)
(* level MaxLevel: spawn_next_enemy is called with the time of one tick    *)
(* after the other, TimeStep apart, as update_playing calls it, and        *)
(* advance_level once all the enemies of the level are spawned, as         *)
(* update_level_transition calls it.  History: what the last               *)
(* spawn_next_enemy call saw and returned.                                 *)
(*   time      the current_time handed to the call                         *)
(*   level     current_level at the call                                   *)
(*   spawned   enemies_spawned before the call                             *)
(*   target    enemies_in_level at the call                                *)
(*   kind      the kind of the enemy returned ("none" for None)            *)

LevelInit ==
    /\ \E d \in Difficulties :
         InitGame(reset_game(MenuShown(EmptyTable, MenuFrames), d))
    /\ hist = [time |-> 0, level |-> 1, spawned |-> 0, target |-> 0,
               kind |-> "none"]

\* level_manager.spawn_next_enemy(current_time), random.choice returning
\* choice.
LevelSpawn ==
    /\ hist.time + TimeStep <= MaxLevelSteps * TimeStep
    /\ \E choice \in SpawnPool(level_manager) :
         LET current_time == hist.time + TimeStep
             sp == spawn_next_enemy(level_manager, current_time, NoneVal, choice)
         IN  /\ SetGame([GameRec EXCEPT !.level_manager = sp.lm])
             /\ hist' = [time    |-> current_time,
                         level   |-> level_manager.current_level,
                         spawned |-> level_manager.enemies_spawned,
                         target  |-> level_manager.enemies_in_level,
                         kind    |-> IF sp.enemy = NoneVal THEN "none"
                                     ELSE sp.enemy.type]

\* level_manager.advance_level(), called once the level is complete.
LevelAdvance ==
    /\ level_manager.current_level < MaxLevel
    /\ is_level_complete(level_manager, 0)
    /\ SetGame([GameRec EXCEPT !.level_manager = advance_level(@)])
    /\ UNCHANGED hist

LevelNext ==
    \/ LevelSpawn
    \/ LevelAdvance

SpecLevel == LevelInit /\ [][LevelNext]_vars

\* C4: the number of enemies spawned in a level never exceeds the level's
\* target, and spawn_next_enemy returns no enemy once the two are equal: the
\* last call returned None if they were equal before it, and the next call
\* returns None, whatever the time and the random choice, if they are now.
C4_SpawnedWithinTarget ==
    /\ level_manager.enemies_spawned <= level_manager.enemies_in_level
    /\ hist.spawned = hist.target => hist.kind = "none"
    /\ level_manager.enemies_spawned = level_manager.enemies_in_level =>
         \A choice \in EnemyKinds, k \in 0..MaxLevelSteps :
             spawn_next_enemy(level_manager, k * TimeStep,
                              NoneVal, choice).enemy = NoneVal

\* Level 2 with all its enemies spawned, a further call having returned None.
C4_Witness ==
    /\ level_manager.current_level = 2
    /\ level_manager.enemies_spawned = level_manager.enemies_in_level
    /\ hist.level = 2
    /\ hist.spawned = hist.target
    /\ hist.kind = "none"

\* C5: a spawned enemy is of the boss kind exactly when the level of the
\* spawn is a multiple of 5 and the enemy is the first one spawned in it.
C5_BossExactlyFirstOnBossLevel ==
    hist.kind # "none" =>
        (hist.kind = "turkey" <=> (hist.level % 5 = 0 /\ hist.spawned = 0))

\* A later spawn of boss level 5 (the boss was spawned first).
C5_Witness ==
    /\ hist.level = 5
    /\ hist.spawned >= 1
    /\ hist.kind \notin {"none", "turkey"}
    /\ level_manager.enemies_spawned = hist.spawned + 1

-----------------------------------------------------------------------------
(* SpecPlayer: the player of a run under apply_powerup_effect with         *)
(* fire-rate and speed-boost powerups, at most MaxStack of each kind, and  *)
(* under update_effects, at most MaxPlayerSteps times.  History: the       *)
(* number of pickups of each kind and of update_effects calls.             *)

PlayerInit ==
    /\ \E d \in Difficulties :
         InitGame(reset_game(MenuShown(EmptyTable, MenuFrames), d))
    /\ hist = [fire_rate |-> 0, speed_boost |-> 0, sweeps |-> 0]

\* self.apply_powerup_effect(powerup, current_time) with a powerup of a
\* stackable kind.
PlayerPickup ==
    /\ state = "playing"
    /\ \E kind \in StackableEffects :
         /\ hist[kind] < MaxStack
         /\ SetGame(apply_powerup_effect(GameRec, spawn_powerup(kind), now))
         /\ hist' = [hist EXCEPT ![kind] = @ + 1]

\* self.player.update_effects(current_time) at the time of a later tick.
PlayerSweep ==
    /\ state = "playing"
    /\ hist.sweeps < MaxPlayerSteps
    /\ LET current_time == now + (hist.sweeps + 1) * TimeStep
       IN  SetGame([GameRec EXCEPT !.player = update_effects(@, current_time)])
    /\ hist' = [hist EXCEPT !.sweeps = @ + 1]

PlayerNext ==
    \/ PlayerPickup
    \/ PlayerSweep

SpecPlayer == PlayerInit /\ [][PlayerNext]_vars

\* The modifier of a kind picked up n times: base ^ n, and 1.0 for n = 0.
StackedModifier(base, n) == IF n = 0 THEN ROne ELSE Rat(base[1] ^ n, base[2] ^ n)

\* C10: after n pickups of fire-rate and m pickups of speed-boost, with no
\* clear, cooldown_modifier is FIRE_RATE_MODIFIER ^ n and speed_modifier is
\* SPEED_BOOST_MODIFIER ^ m; each depends on its own kind only, the stack
\* counts are n and m, and a kind never picked up contributes 1.0.
C10_ModifiersArePowers ==
    LET n == hist.fire_rate
        m == hist.speed_boost
    IN  /\ player.cooldown_modifier = StackedModifier(FIRE_RATE_MODIFIER, n)
        /\ player.speed_modifier = StackedModifier(SPEED_BOOST_MODIFIER, m)
        /\ DictGet(player.effect_stacks, "fire_rate", 0) = n
        /\ DictGet(player.effect_stacks, "speed_boost", 0) = m
        /\ n = 0 => player.cooldown_modifier = ROne
        /\ m = 0 => player.speed_modifier = ROne

\* Two pickups of each kind, and a sweep after them: 0.9 ^ 2 = 81/100 and
\* 1.1 ^ 2 = 121/100.
C10_Witness ==
    /\ hist.fire_rate = 2
    /\ hist.speed_boost = 2
    /\ hist.sweeps > 0
    /\ player.cooldown_modifier = << 81, 100 >>
    /\ player.speed_modifier = << 121, 100 >>

-----------------------------------------------------------------------------
(* SpecCollide: the ticks of a run on any difficulty, at the start of one  *)
(* of the levels CollideLevels (whose kinds have 1 to 5 health), over      *)
(* MaxCollideSteps TimeSteps, under every input: the bullet-enemy pass     *)
(* runs on every pair of lists of at most MaxBullets bullets and           *)
(* MaxEnemies enemies that the ticks build.  History: the lists handed to  *)
(* the last pass, the overlaps of that pass, and the score before it.      *)

CollideLevels == { 1, 2, 6 }

CollideInit ==
    /\ \E d \in Difficulties, level \in CollideLevels :
         InitGame([reset_game(MenuShown(EmptyTable, MenuFrames), d) EXCEPT
                      !.level_manager = LevelAt(d, level)])
    /\ hist = NoneVal

CollideTick ==
    TickWith(EarlyInputs(GameRec), MaxBullets, MaxCollideSteps, "collide")

CollideNext == CollideTick

SpecCollide == CollideInit /\ [][CollideNext]_vars

\* The bullets the last pass deactivated.
Consumed == { i \in 1..Len(hist.bullets) :
                hist.bullets[i].active /\ ~ bullets[i].active }

\* The health the last pass took from enemy j.
Damage(j) == hist.enemies[j].health - enemies[j].health

\* Enemy j is active when the last pass reaches bullet i, the bullets
\* before i having hit the enemies t names.
AliveAt(t, i, j) ==
    /\ hist.enemies[j].active
    /\ Cardinality({ k \in Consumed : k < i /\ t[k] = j })
         < hist.enemies[j].health

\* C7: in a pass, every bullet that overlaps an enemy still active when its
\* turn comes is deactivated and damages the first such enemy and no other;
\* a bullet that overlaps none is left as it was; all the damage of the pass
\* is the damage of these hits; and no bullet ever damages more than one
\* enemy, a bullet that has damaged one being inactive.
C7_BulletHitsFirstEnemyOnly ==
    /\ \A i \in 1..Len(bullets) :
           /\ bullets[i].g_hits <= 1
           /\ bullets[i].g_hits = 1 => ~ bullets[i].active
    /\ hist # NoneVal =>
         /\ Len(bullets) = Len(hist.bullets)
         /\ Len(enemies) = Len(hist.enemies)
         /\ \E t \in [Consumed -> 1..Len(enemies)] :
              /\ \A i \in Consumed :
                     /\ << i, t[i] >> \in hist.ov
                     /\ AliveAt(t, i, t[i])
                     /\ \A j \in 1..(t[i] - 1) :
                            ~ (<< i, j >> \in hist.ov /\ AliveAt(t, i, j))
                     /\ bullets[i].g_hits = hist.bullets[i].g_hits + 1
              /\ \A i \in (1..Len(bullets)) \ Consumed :
                     /\ bullets[i] = hist.bullets[i]
                     /\ hist.bullets[i].active =>
                          \A j \in 1..Len(enemies) :
                              ~ (<< i, j >> \in hist.ov /\ AliveAt(t, i, j))
              /\ \A j \in 1..Len(enemies) :
                     Damage(j) = Cardinality({ i \in Consumed : t[i] = j })

\* A bullet that overlapped two active enemies damaged the first one only.
C7_Witness ==
    /\ hist # NoneVal
    /\ Len(hist.enemies) = 2
    /\ { << 1, 1 >>, << 1, 2 >> } \subseteq hist.ov
    /\ 1 \in Consumed
    /\ Damage(1) = 1
    /\ Damage(2) = 0

RECURSIVE SumPoints(_, _)
\* The points of the enemies of es at the indices of S.
SumPoints(es, S) ==
    IF S = {} THEN 0
    ELSE LET j == CHOOSE x \in S : TRUE
         IN  es[j].points + SumPoints(es, S \ {j})

\* The enemies the last pass destroyed.
Destroyed == { j \in 1..Len(hist.enemies) :
                 hist.enemies[j].health > 0 /\ enemies[j].health = 0 }

\* C8: an enemy is reported destroyed at most once and credited at most
\* once: it is reported exactly when its health is zero, which no hit takes
\* it below, and it is inactive then; the score gained in a tick is the sum
\* of the points of the enemies its pass destroyed; and every bullet a pass
\* consumes takes one health from an enemy, so none is consumed by an enemy
\* already destroyed.
C8_DestroyedAndCreditedOnce ==
    /\ \A j \in 1..Len(enemies) :
           LET e == enemies[j]
           IN  /\ e.g_destroyed <= 1
               /\ e.g_credited = e.g_destroyed * e.points
               /\ e.health >= 0
               /\ e.health = 0 => ~ e.active
               /\ e.g_destroyed = 1 <=> e.health = 0
    /\ hist # NoneVal =>
         /\ current_score - hist.score = SumPoints(enemies, Destroyed)
         /\ \A j \in 1..Len(enemies) : Damage(j) <= hist.enemies[j].health
         /\ Cardinality(Consumed)
              = Cardinality({ << i, j >> \in (1..Len(bullets)) \X (1..Len(enemies)) :
                                i <= Damage(j) })

\* Two bullets overlapped only the same enemy of health 1: the first one
\* destroyed it for its points, the second one stayed active.
C8_Witness ==
    /\ hist # NoneVal
    /\ Len(hist.bullets) = 2
    /\ Len(hist.enemies) >= 1
    /\ hist.ov = { << 1, 1 >>, << 2, 1 >> }
    /\ hist.enemies[1].health = 1
    /\ enemies[1].g_destroyed = 1
    /\ ~ bullets[1].active
    /\ bullets[2].active
    /\ current_score = hist.score + enemies[1].points

-----------------------------------------------------------------------------
(* Properties of the game specifications.                                  *)

\* C1: a tick of a run in progress that takes the last life leaves the game
\* in NameInput or GameOver, never in Playing or LevelTransition.
C1_LastLifeEndsRun ==
    [][ (state = "playing" /\ lives > 0 /\ lives' <= 0)
          => state' \in {"name_input", "game_over"} ]_vars

\* C2: after a tick in which a life is lost, the player has no active
\* effect, no stack, and both modifiers are 1.0.
C2_LifeLossClearsEffects ==
    [][ (state = "playing" /\ lives' < lives)
          => /\ DOMAIN player'.active_effects = {}
             /\ \A k \in DOMAIN player'.effect_stacks :
                    player'.effect_stacks[k] = 0
             /\ player'.speed_modifier = ROne
             /\ player'.cooldown_modifier = ROne ]_vars

\* C3: the game is in LevelTransition only with every enemy of the level
\* spawned and no enemy active: a tick that ends with fewer enemies spawned
\* than the level's target does not enter it, even with no enemy active.
C3_TransitionOnlyWhenLevelDone ==
    state = "level_transition" =>
        /\ level_manager.enemies_spawned >= level_manager.enemies_in_level
        /\ \A j \in 1..Len(enemies) : ~ enemies[j].active

\* The first level of a run completed with lives left.
C3_Witness ==
    /\ state = "level_transition"
    /\ level_manager.current_level = 1
    /\ level_manager.enemies_spawned = level_manager.enemies_in_level
    /\ lives > 0
    /\ current_score > 0

\* C9: the score never decreases from one step of a run to the next, and
\* it is 0 right after reset_game has started a run.
C9_ScoreMonotoneAndReset ==
    [][ IF state \in {"menu", "game_over"} /\ state' = "playing"
          THEN current_score' = 0
          ELSE current_score' >= current_score ]_vars

\* A run started at score 0 after a run that had scored.
C9_Witness ==
    /\ state = "playing"
    /\ current_score = 0
    /\ hist # NoneVal
    /\ hist.previous_score > 0

-----------------------------------------------------------------------------
(* SpecEffects: the player of a run under apply_powerup with any          *)
(* stackable kind and a duration that is persistent or one or two          *)
(* TimeSteps, and under update_effects, the time handed to a call being    *)
(* that of the call before or one TimeStep later, up to MaxEffectSteps     *)
(* TimeSteps, with up to MaxStack stacks of a kind.  History: the last     *)
(* call (op) and the time handed to it.                                    *)

EffectDurations == { PERSISTENT, TimeStep, 2 * TimeStep }

EffectInit ==
    /\ \E d \in Difficulties :
         InitGame(reset_game(MenuShown(EmptyTable, MenuFrames), d))
    /\ hist = [op |-> "none", time |-> now]

\* The times a call can be handed after the last one.
EffectTimes ==
    { t \in { hist.time, hist.time + TimeStep } : t <= MaxEffectSteps * TimeStep }

\* self.player.apply_powerup(effect_type, duration, current_time)
EffectApply ==
    /\ state = "playing"
    /\ \E effect_type \in StackableEffects, duration \in EffectDurations,
          current_time \in EffectTimes :
         /\ DictGet(player.effect_stacks, effect_type, 0) < MaxStack
         /\ SetGame([GameRec EXCEPT
                       !.player = apply_powerup(@, effect_type, duration,
                                                current_time)])
         /\ hist' = [op |-> "apply", time |-> current_time]

\* self.player.update_effects(current_time)
EffectSweep ==
    /\ state = "playing"
    /\ \E current_time \in EffectTimes :
         /\ SetGame([GameRec EXCEPT
                       !.player = update_effects(@, current_time)])
         /\ hist' = [op |-> "sweep", time |-> current_time]

EffectNext ==
    \/ EffectApply
    \/ EffectSweep

SpecEffects == EffectInit /\ [][EffectNext]_vars

\* C11: the sweep at time t removes exactly the effects whose expiration is
\* not the persistent sentinel -1 and is at most t, and leaves the
\* expiration of the others as it was; a persistent effect is never
\* removed; a sweep that removes nothing leaves both modifiers unchanged.
C11_SweepRemovesExactlyExpired ==
    [][ hist'.op = "sweep" =>
          LET t      == hist'.time
              before == player.active_effects
              after  == player'.active_effects
              gone   == { k \in DOMAIN before : before[k] # -1 /\ before[k] <= t }
          IN  /\ DOMAIN after = (DOMAIN before) \ gone
              /\ \A k \in DOMAIN after : after[k] = before[k]
              /\ \A k \in DOMAIN before : before[k] = -1 => k \in DOMAIN after
              /\ gone = {} =>
                   /\ player'.speed_modifier = player.speed_modifier
                   /\ player'.cooldown_modifier = player.cooldown_modifier ]_vars

\* A timed speed boost has been swept away next to a persistent fire rate.
C11_Witness ==
    /\ hist.op = "sweep"
    /\ DOMAIN player.active_effects = { "fire_rate" }
    /\ player.active_effects["fire_rate"] = -1
    /\ "speed_boost" \in DOMAIN player.effect_stacks
    /\ player.cooldown_modifier = FIRE_RATE_MODIFIER
    /\ hist.time >= 2 * TimeStep

\* C12: a stackable kind applied while no application of it is active (none
\* was made, or all have expired) has stack count 1 and the modifier
\* base ^ 1 afterwards.
C12_StackCountsUnexpiredApplications ==
    [][ \A k \in StackableEffects :
          ( /\ hist'.op = "apply"
            /\ k \notin DOMAIN player.active_effects
            /\ k \in DOMAIN player'.active_effects )
          => /\ player'.effect_stacks[k] = 1
             /\ k = "fire_rate" =>
                  player'.cooldown_modifier = FIRE_RATE_MODIFIER
             /\ k = "speed_boost" =>
                  player'.speed_modifier = SPEED_BOOST_MODIFIER ]_vars

-----------------------------------------------------------------------------
(* SpecScores: the high-score table under up to MaxAdds calls of           *)
(* add_high_score with any of two difficulties and a score below or above  *)
(* the records of the saved table; hist is the call's arguments, the table *)
(* before it and the number of calls so far.                               *)

\* Scores of the added records: below and above the 50 of FullHardTable.
AddedScores == { 40, 60 }

ScoreDifficulties == { "medium", "hard" }

ScoresInit ==
    /\ \E table \in InitialTables : InitGame(NewGame(table))
    /\ hist = [adds |-> 0, d |-> "medium", score |-> 0, before |-> high_scores]

\* score_manager.add_high_score(name, score, difficulty, level)
ScoresAdd ==
    /\ hist.adds < MaxAdds
    /\ \E d \in ScoreDifficulties, score \in AddedScores :
         /\ SetGame([GameRec EXCEPT
                       !.high_scores = add_high_score(@, <<"A">>, score, d, 1)])
         /\ hist' = [adds |-> hist.adds + 1, d |-> d, score |-> score,
                     before |-> high_scores]

ScoresNext == ScoresAdd

SpecScores == ScoresInit /\ [][ScoresNext]_vars

\* The number of records of a table with a given score.
CountScore(table, v) == Cardinality({ i \in DOMAIN table : table[i].score = v })

\* C13: after any sequence of add_high_score calls every table is sorted by
\* score descending and holds at most MAX_HIGH_SCORES records; a call on a
\* full table keeps the 10 highest of the 11 records (one record of the
\* lowest score is dropped), a call on a shorter table keeps all; the
\* tables of the other difficulties are as before the call.
C13_TableSortedBoundedKeepsHighest ==
    /\ \A d \in Difficulties :
         /\ Len(high_scores[d]) <= MAX_HIGH_SCORES
         /\ \A i \in 1..Len(high_scores[d]) - 1 :
              high_scores[d][i].score >= high_scores[d][i + 1].score
    /\ hist.adds > 0 =>
         LET old == hist.before[hist.d]
             new == high_scores[hist.d]
             values == { old[i].score : i \in DOMAIN old } \cup { hist.score }
             added(v) == IF v = hist.score THEN 1 ELSE 0
             dropped(v) == IF Len(old) = MAX_HIGH_SCORES /\ v = Min(values)
                           THEN 1 ELSE 0
         IN  /\ \A d \in Difficulties \ { hist.d } :
                  high_scores[d] = hist.before[d]
             /\ Len(new) = Min({ Len(old) + 1, MAX_HIGH_SCORES })
             /\ \A v \in values \cup { new[i].score : i \in DOMAIN new } :
                  CountScore(new, v) = CountScore(old, v) + added(v) - dropped(v)

\* A record of score 60 has been added to a full table of 50s: it is first
\* and one 50 is gone.
C13_Witness ==
    /\ hist.adds > 0
    /\ hist.d = "hard"
    /\ hist.score = 60
    /\ Len(hist.before.hard) = MAX_HIGH_SCORES
    /\ Len(high_scores.hard) = MAX_HIGH_SCORES
    /\ high_scores.hard[1].score = 60
    /\ CountScore(high_scores.hard, 50) = CountScore(hist.before.hard, 50) - 1


\* C14: the update that takes the last life leaves the game in NameInput if
\* is_high_score(final score, difficulty) holds and in GameOver otherwise;
\* NameInput is left only for GameOver, in the step that adds the record of
\* the non-empty name with add_high_score, and the table changes in no
\* other step.
C14_RunEndsInNameInputOrGameOver ==
    [][ /\ ( /\ state = "playing"
             /\ lives > 0
             /\ lives' <= 0 )
          => state' = ( IF is_high_score(high_scores, current_score', difficulty)
                        THEN "name_input" ELSE "game_over" )
        /\ ( /\ state = "name_input"
             /\ state' # "name_input" )
          => /\ state' = "game_over"
             /\ player_name # << >>
             /\ high_scores' = add_high_score(high_scores, player_name,
                                              current_score, difficulty,
                                              get_current_level(level_manager))
        /\ high_scores' # high_scores => state = "name_input" ]_vars

-----------------------------------------------------------------------------
(* SpecSine: one sine-wave enemy (the boss kind) from spawn_enemy over     *)
(* MaxSineSteps calls of its update.  hist is the enemy with its position: *)
(* its initial_x, x and y, the value of amplitude * sin(...) of the last   *)
(* update in whole pixels, and the number of updates.  The argument of the *)
(* sine (0.05 * y + time_offset, time_offset uniform in [0, 2 pi]) can     *)
(* give the sine any value in [-1, 1], so the product is any value of      *)
(* SineOffsets.                                                            *)

SCREEN_WIDTH == 800
SCREEN_HEIGHT == 600
ENEMY_SPAWN_MARGIN == 50
SINE_AMPLITUDE == 100

\* The 'width' and 'height' of the kinds of ENEMY_TYPES.
ENEMY_SIZE ==
    [ gravy_boat |-> 70, pumpkin_pie |-> 60, cranberry |-> 45,
      mashed_potato |-> 65, stuffing |-> 85, green_bean_casserole |-> 100,
      turkey |-> 90 ]

\* The kinds that move in a sine wave.
SineKinds == { k \in EnemyKinds : ENEMY_TYPES[k].movement = "sine_wave" }

\* a + b
RAdd(a, b) == Rat(a[1] * b[2] + b[1] * a[2], a[2] * b[2])

\* random.randint(ENEMY_SPAWN_MARGIN, SCREEN_WIDTH - width -
\* ENEMY_SPAWN_MARGIN): the ends of the range, their neighbours, the middle.
SpawnXs(kind) ==
    LET lo == ENEMY_SPAWN_MARGIN
        hi == SCREEN_WIDTH - ENEMY_SIZE[kind] - ENEMY_SPAWN_MARGIN
    IN  { lo, lo + 1, (lo + hi) \div 2, hi - 1, hi }

\* amplitude * math.sin(...): the extremes, zero, and the values around the
\* distance of a spawn position from the nearer edge.
SineOffsets ==
    { - SINE_AMPLITUDE, - ENEMY_SPAWN_MARGIN - 1, - ENEMY_SPAWN_MARGIN,
      - ENEMY_SPAWN_MARGIN + 1, 0, ENEMY_SPAWN_MARGIN - 1,
      ENEMY_SPAWN_MARGIN, ENEMY_SPAWN_MARGIN + 1, SINE_AMPLITUDE }

\* The position spawn_enemy gives a new enemy: x drawn, y = -height.
SpawnPosition(kind, x) ==
    [ initial_x |-> x, x |-> x, y |-> << - ENEMY_SIZE[kind], 1 >>,
      offset |-> 0, updates |-> 0 ]

\* move_sine_wave without the bounds (a variant the position is checked
\* against).
move_sine_wave_Unbounded(pos, e, offset) ==
    [ pos EXCEPT !.y = RAdd(@, e.speed),
                 !.x = pos.initial_x + offset,
                 !.offset = offset,
                 !.updates = @ + 1 ]

\* Enemy.move_sine_wave, with offset the value of amplitude * sin(...).
move_sine_wave(pos, e, offset) ==
    LET x == pos.initial_x + offset
        right == SCREEN_WIDTH - ENEMY_SIZE[e.type]
    IN  [ pos EXCEPT !.y = RAdd(@, e.speed),
                     !.x = IF x < 0 THEN 0
                           ELSE IF x > right THEN right
                           ELSE x,
                     !.offset = offset,
                     !.updates = @ + 1 ]

\* Enemy.update, lines 73-75: off the screen below.
OffScreen(pos) == ~ RLe(pos.y, << SCREEN_HEIGHT, 1 >>)

SineInit ==
    /\ \E d \in Difficulties :
         InitGame(reset_game(MenuShown(EmptyTable, MenuFrames), d))
    /\ hist = NoneVal

\* spawn_enemy of a sine-wave kind with the level's speed multiplier: the
\* enemy returned, which is in no list of the game.
SineSpawn ==
    /\ state = "playing"
    /\ hist = NoneVal
    /\ \E kind \in SineKinds : \E x \in SpawnXs(kind) :
         hist' = DictSet(SpawnPosition(kind, x), "enemy",
                         spawn_enemy(kind, get_speed_multiplier(level_manager),
                                     NoneVal))
    /\ SetGame(GameRec)

\* enemy.update() on the enemy while it is active.
SineUpdate ==
    /\ hist # NoneVal
    /\ hist.enemy.active
    /\ hist.updates < MaxSineSteps
    /\ \E offset \in SineOffsets :
         LET pos == move_sine_wave(hist, hist.enemy, offset)
         IN  hist' = [pos EXCEPT !.enemy.active = ~ OffScreen(pos)]
    /\ SetGame(GameRec)

SineNext ==
    \/ SineSpawn
    \/ SineUpdate

SpecSine == SineInit /\ [][SineNext]_vars

\* C15: the x of a sine-wave enemy is within 0 .. SCREEN_WIDTH - width at
\* its spawn and after every update, whatever the sine term is.
C15_SineEnemyStaysOnScreen ==
    hist # NoneVal =>
        ( ENEMY_TYPES[hist.enemy.type].movement = "sine_wave" =>
            /\ 0 <= hist.x
            /\ hist.x <= SCREEN_WIDTH - ENEMY_SIZE[hist.enemy.type] )

\* An update whose sine term would put the enemy left of the screen has
\* left it at the edge.
C15_Witness ==
    /\ hist # NoneVal
    /\ hist.updates > 0
    /\ hist.initial_x + hist.offset < 0
    /\ hist.x = 0

-----------------------------------------------------------------------------
(* SpecTrack: the ticks of a run that has reached TrackLevel, the level    *)
(* that unlocks the track-player kind, over MaxTrackSteps TimeSteps.       *)

\* ENEMY_UNLOCKS: the level of 'green_bean_casserole'.
TrackLevel == 8

\* The branch Enemy.move_track_player takes for an enemy.
move_track_player(e) ==
    IF ~ e.has_player THEN "move_straight" ELSE "toward_player"

TrackInit ==
    /\ \E d \in Difficulties :
         InitGame([reset_game(MenuShown(EmptyTable, MenuFrames), d) EXCEPT
                      !.level_manager = LevelAt(d, TrackLevel)])
    /\ hist = NoneVal

TrackTick == PlayingTick(RunInputs(GameRec), RunBullets, MaxTrackSteps)

TrackNext == TrackTick

SpecTrack == TrackInit /\ [][TrackNext]_vars

\* C16: every enemy of a track-player kind in the game's list has a player
\* reference and moves toward the player, never straight down.
C16_TrackersFollowPlayer ==
    \A j \in DOMAIN enemies :
        ENEMY_TYPES[enemies[j].type].movement = "track_player" =>
            /\ enemies[j].has_player
            /\ move_track_player(enemies[j]) = "toward_player"

-----------------------------------------------------------------------------
(* SpecPower: one run on "easy" that the player starts after MenuWait      *)
(* TimeSteps in the menu, so that the first powerup is due in the first    *)
(* tick, up to the clock value MaxPowerSteps.  The player holds the fire   *)
(* key; the powerups are of the slow-enemies, extra-life and fire-rate     *)
(* kinds.                                                                  *)

PowerKinds == { "slow_enemies", "extra_life", "fire_rate" }

PowerInputs(g) ==
    [ space        : {TRUE},
      bullets_off  : IF g.bullets # << >> THEN {0, 1} ELSE {0},
      ptype        : IF PowerupDue(g) THEN PowerKinds ELSE {"fire_rate"},
      powerups_off : IF g.powerups # << >> THEN {{}, {1}} ELSE {{}},
      etype        : IF can_spawn_enemy(g.level_manager, g.now)
                       THEN SpawnPool(g.level_manager) ELSE {"cranberry"},
      enemies_off  : {{}} ]

\* The program has shown the menu for MenuWait TimeSteps.
PowerInit ==
    /\ InitGame(MenuShown(EmptyTable, MenuWait))
    /\ hist = NoneVal

PowerMenuEvent == MenuClick({"easy"}, MenuWait)

PowerUpdatePlaying ==
    PlayingTick(PowerInputs(GameRec), RunBullets, MaxPowerSteps)

PowerNext ==
    \/ PowerMenuEvent
    \/ PowerUpdatePlaying

SpecPower == PowerInit /\ [][PowerNext]_vars


\* The speeds of a list of enemies, in the order of the list.
Speeds(es) == [ j \in 1..Len(es) |-> es[j].speed ]

\* The catalog speed of an enemy's kind at the level of the scheduler.
LevelSpeed(e, lm) == RMul(ENEMY_TYPES[e.type].speed, get_speed_multiplier(lm))

\* The update that led to the current state, at time now - TimeStep,
\* spawned an enemy: the last of the list.
SpawnedLastTick ==
    /\ level_manager # NoneVal
    /\ level_manager.last_spawn_time = now - TimeStep
    /\ enemies # << >>

\* C17: an enemy spawned by a tick in which slow-enemies is active (the
\* deadline left by the tick is after the tick's time, the tick of the
\* pickup included) starts with catalog speed x level multiplier x
\* SLOW_ENEMIES_MODIFIER, and one spawned by any other tick with catalog
\* speed x level multiplier.
C17_SpawnSpeedSlowedOnce ==
    SpawnedLastTick =>
        LET e == enemies[Len(enemies)]
            slow == enemy_speed_modifier_expiration > now - TimeStep
        IN  e.speed = RMul(LevelSpeed(e, level_manager),
                           IF slow THEN SLOW_ENEMIES_MODIFIER ELSE ROne)

\* The tick that collected slow-enemies also spawned an enemy, which has
\* the slowed speed.
C17_Witness ==
    /\ SpawnedLastTick
    /\ enemy_speed_modifier_expiration
         = now - TimeStep + POWERUP_TYPES["slow_enemies"].duration
    /\ enemies[Len(enemies)].speed
         = RMul(LevelSpeed(enemies[Len(enemies)], level_manager),
                SLOW_ENEMIES_MODIFIER)

\* C18: in every tick before the deadline the modifier stays at
\* SLOW_ENEMIES_MODIFIER and the deadline is kept or, by a pickup in the
\* tick, moved to the tick's time + duration; the first tick at or after
\* the deadline resets the modifier to 1.0 and the deadline to 0 (unless it
\* collects slow-enemies again); a tick that resets the modifier leaves the
\* speed of every enemy already listed as it was.
C18_SlowLastsUntilDeadline ==
    [][ ( state = "playing" /\ now' # now ) =>
          LET deadline == enemy_speed_modifier_expiration
              renewed  == now + POWERUP_TYPES["slow_enemies"].duration
              picked   == /\ enemy_speed_modifier' = SLOW_ENEMIES_MODIFIER
                          /\ enemy_speed_modifier_expiration' = renewed
              neutral  == /\ enemy_speed_modifier' = ROne
                          /\ enemy_speed_modifier_expiration' = 0
              kept     == /\ enemy_speed_modifier' = SLOW_ENEMIES_MODIFIER
                          /\ enemy_speed_modifier_expiration' = deadline
              old      == Speeds(enemies)
              new      == IF level_manager'.last_spawn_time = now
                            THEN SubSeq(Speeds(enemies'), 1, Len(enemies') - 1)
                            ELSE Speeds(enemies')
          IN  /\ ( deadline > 0 /\ now < deadline ) => ( kept \/ picked )
              /\ ( deadline > 0 /\ now >= deadline ) => ( neutral \/ picked )
              /\ deadline = 0 => ( neutral \/ picked )
              /\ ( enemy_speed_modifier = SLOW_ENEMIES_MODIFIER /\ neutral ) =>
                    \E R \in SUBSET (DOMAIN old) : RemoveAt(old, R) = new ]_vars

\* The effect has run out while an enemy it slowed is still listed.
C18_Witness ==
    /\ state = "playing"
    /\ enemy_speed_modifier = ROne
    /\ enemy_speed_modifier_expiration = 0
    /\ \E j \in DOMAIN enemies :
         enemies[j].speed = RMul(LevelSpeed(enemies[j], level_manager),
                                 SLOW_ENEMIES_MODIFIER)

\* C19: collecting an extra life adds exactly one life and changes no
\* other field of the game (the player's effects, stacks and modifiers,
\* the enemy speed modifier and its expiration among them); extra_life and
\* slow_enemies are never keys of the player's active effects.
C19_ExtraLifeOnlyAddsLife ==
    player # NoneVal =>
        /\ apply_powerup_effect(GameRec, spawn_powerup("extra_life"), now)
             = [GameRec EXCEPT !.lives = @ + 1]
        /\ DOMAIN player.active_effects \cap { "extra_life", "slow_enemies" } = {}

\* An extra life and a fire-rate powerup have been collected.
C19_Witness ==
    /\ state = "playing"
    /\ lives = DIFFICULTY_SETTINGS[difficulty].lives + 1
    /\ player.active_effects # EmptyDict

-----------------------------------------------------------------------------
(* SpecHit: the ticks of a run on any difficulty, started after MenuWait  *)
(* TimeSteps in the menu (a powerup is due from the first tick on), over   *)
(* MaxHitSteps TimeSteps, the player holding the fire key; the powerups    *)
(* are extra lives and slow-enemies.  hist is what the passes of the last  *)
(* tick saw: the enemies before and after the bullet-enemy pass, the       *)
(* enemies overlapping the player, those at the bottom, and the lives and  *)
(* the score before the passes.                                            *)

HitKinds == { "extra_life", "slow_enemies" }

HitInputs(g) ==
    [ space        : {TRUE},
      bullets_off  : IF g.bullets # << >> THEN {0, 1} ELSE {0},
      ptype        : IF PowerupDue(g) THEN HitKinds ELSE {"fire_rate"},
      powerups_off : IF g.powerups # << >> THEN {{}, {1}} ELSE {{}},
      etype        : IF can_spawn_enemy(g.level_manager, g.now)
                       THEN SpawnPool(g.level_manager) ELSE {"cranberry"},
      enemies_off  : {{}} ]

HitInit ==
    /\ \E d \in Difficulties :
         InitGame(reset_game(MenuShown(EmptyTable, MenuWait), d))
    /\ hist = NoneVal

\* One iteration of Game.run, recording what the enemy-player pass and the
\* bottom pass are handed.
HitTick ==
    TickWith(HitInputs(GameRec), RunBullets, MenuWait + MaxHitSteps, "hit")

HitNext == HitTick

SpecHit == HitInit /\ [][HitNext]_vars

\* The active enemies of the last tick's passes that overlapped the player,
\* and those that had reached the bottom.
HitPlayer == { j \in DOMAIN hist.enemies :
                 hist.enemies[j].active /\ j \in hist.at_player }

HitBottom == { j \in DOMAIN hist.enemies :
                 hist.enemies[j].active /\ j \in hist.at_bottom }

\* C20: of the active enemies that overlap the player in a tick, the
\* enemy-player pass deactivates the first only and the others stay
\* active; the pass costs one life however many overlap (the bottom pass
\* of the tick costs one more if an active enemy has reached the bottom),
\* and an enemy in neither pass is as it was.
C20_PlayerPassTakesFirstEnemyOneLife ==
    hist # NoneVal =>
        /\ Len(enemies) = Len(hist.enemies)
        /\ HitPlayer # {} =>
             /\ ~ enemies[Min(HitPlayer)].active
             /\ \A j \in HitPlayer \ { Min(HitPlayer) } : enemies[j].active
        /\ \A j \in DOMAIN enemies :
             j \notin HitPlayer \cup HitBottom => enemies[j] = hist.enemies[j]
        /\ lives = hist.lives - ( IF HitPlayer # {} THEN 1 ELSE 0 )
                              - ( IF HitBottom # {} THEN 1 ELSE 0 )

\* Two active enemies overlapped the player in one tick, an extra life
\* having been collected before the passes: one life lost, the second enemy
\* still active.
C20_Witness ==
    /\ hist # NoneVal
    /\ hist.lives = DIFFICULTY_SETTINGS[difficulty].lives + 1
    /\ Cardinality(HitPlayer) = 2
    /\ HitBottom = {}
    /\ lives = hist.lives - 1
    /\ \E j \in HitPlayer : enemies[j].active


\* C21: every active enemy at the bottom boundary in a tick is deactivated
\* by the bottom pass, and a tick with at least one such enemy costs one
\* life for all of them together, next to the life an enemy-player
\* collision of the same tick costs.
C21_EscapesDeactivatedOneLife ==
    hist # NoneVal =>
        /\ \A j \in HitBottom : ~ enemies[j].active
        /\ check_enemies_reached_bottom(hist.enemies, hist.at_bottom).count
             = Cardinality(HitBottom)
        /\ HitBottom # {} => lives <= hist.lives - 1
        /\ ( HitBottom # {} /\ HitPlayer # {} ) => lives = hist.lives - 2
        /\ ( HitBottom # {} /\ HitPlayer = {} ) => lives = hist.lives - 1
        /\ ( HitBottom = {} /\ HitPlayer = {} ) => lives = hist.lives

\* Two active enemies reached the bottom in one tick, the enemies being
\* slowed by a powerup collected before the passes: both are inactive and
\* one life is lost.
C21_Witness ==
    /\ hist # NoneVal
    /\ enemy_speed_modifier = SLOW_ENEMIES_MODIFIER
    /\ Cardinality(HitBottom) = 2
    /\ \A j \in HitBottom : ~ enemies[j].active
    /\ lives = hist.lives - 1


\* The enemies whose health the bullet-enemy pass of the last tick took to
\* zero.
HitShot == { j \in DOMAIN hist.before :
               hist.before[j].active /\ ~ hist.enemies[j].active }

RECURSIVE CatalogPoints(_, _)
\* The sum of the catalog points of the enemies of es at the indices of S.
CatalogPoints(es, S) ==
    IF S = {} THEN 0
    ELSE LET j == CHOOSE x \in S : TRUE
         IN  ENEMY_TYPES[es[j].type].points + CatalogPoints(es, S \ {j})

\* C22: the score after a tick is the score before it plus the catalog
\* points of the enemies whose health reached zero in the bullet-enemy
\* pass; an enemy deactivated by the player or at the bottom is credited
\* nothing.
C22_PointsOnlyFromBullets ==
    hist # NoneVal =>
        /\ current_score = hist.score + CatalogPoints(hist.before, HitShot)
        /\ \A j \in HitPlayer \cup HitBottom :
             /\ enemies[j].g_credited = 0
             /\ enemies[j].health > 0

\* One enemy was shot and another collided with the player or escaped in
\* the same tick: the score grew by the points of the first only.
C22_Witness ==
    /\ hist # NoneVal
    /\ HitShot # {}
    /\ HitPlayer \cup HitBottom # {}
    /\ current_score = hist.score + CatalogPoints(hist.before, HitShot)
    /\ current_score > hist.score


\* C23: a tick spawns at most one enemy; it spawns none at a time less than
\* spawn_rate after last_spawn_time, a spawn sets last_spawn_time to the
\* time of the tick, and two consecutive spawns of a level are at least
\* spawn_rate apart.
C23_SpawnsAtLeastSpawnRateApart ==
    [][ ( state = "playing" /\ now' # now ) =>
          LET rate == DIFFICULTY_SETTINGS[difficulty].spawn_rate
              spawned == level_manager'.enemies_spawned
                           - level_manager.enemies_spawned
          IN  /\ level_manager'.current_level = level_manager.current_level
              /\ level_manager.spawn_rate = rate
              /\ spawned \in {0, 1}
              /\ spawned = 1 =>
                   /\ now - level_manager.last_spawn_time >= rate
                   /\ level_manager'.last_spawn_time = now
                   /\ level_manager.enemies_spawned > 0 =>
                        level_manager'.last_spawn_time
                          - level_manager.last_spawn_time >= rate
              /\ spawned = 0 =>
                   level_manager'.last_spawn_time = level_manager.last_spawn_time
              /\ now - level_manager.last_spawn_time < rate => spawned = 0 ]_vars

\* The second enemy of a level on "easy" has been spawned by the last tick,
\* two ticks after the first (one tick after it no enemy was due).
C23_Witness ==
    /\ difficulty = "easy"
    /\ state = "playing"
    /\ level_manager.enemies_spawned = 2
    /\ level_manager.last_spawn_time = now - TimeStep
    /\ now = (MenuWait + 3) * TimeStep
    /\ hist # NoneVal
    /\ Len(hist.before) >= 1

-----------------------------------------------------------------------------
(* SpecTargets: the level scheduler of every difficulty under              *)
(* advance_level alone, from level 1 to level MaxTargetLevel: the target   *)
(* and the speed multiplier of every level.                                *)

TargetsInit ==
    /\ \E d \in Difficulties : InitGame(reset_game(MenuShown(EmptyTable, MenuFrames), d))
    /\ hist = NoneVal

\* level_manager.advance_level()
TargetsAdvance ==
    /\ level_manager.current_level < MaxTargetLevel
    /\ SetGame([GameRec EXCEPT !.level_manager = advance_level(@)])
    /\ UNCHANGED hist

TargetsNext == TargetsAdvance

SpecTargets == TargetsInit /\ [][TargetsNext]_vars

\* max(5, floor(10 x (1 + (level - 1) x 0.35) x enemy_count_multiplier)),
\* integer-halved plus one on a boss level, in exact arithmetic.
TargetFormula(d, level) ==
    LET m == DIFFICULTY_SETTINGS[d].enemy_count_multiplier
        plain == ( 10 * (100 + (level - 1) * 35) * m[1] ) \div ( 100 * m[2] )
        floored == IF plain > 5 THEN plain ELSE 5
    IN  IF level % 5 = 0 THEN floored \div 2 + 1 ELSE floored

\* C24: the target start_level computed for the current level is the value
\* of the formula and is at least 1.
C24_TargetMatchesFormula ==
    /\ level_manager.enemies_in_level
         = TargetFormula(difficulty, level_manager.current_level)
    /\ level_manager.enemies_in_level >= 1

\* C25: the speed multiplier of the level is speed_multiplier x
\* (1 + floor((level - 1) / 3) x LEVEL_SPEED_INCREASE); the next level has
\* the same multiplier unless the level is a multiple of 3, and then one
\* that is larger by speed_multiplier x LEVEL_SPEED_INCREASE.
C25_SpeedStepsEveryThreeLevels ==
    LET level == level_manager.current_level
        base == DIFFICULTY_SETTINGS[difficulty].speed_multiplier
        here == get_speed_multiplier(level_manager)
        next == get_speed_multiplier(advance_level(level_manager))
        step == RMul(base, LEVEL_SPEED_INCREASE)
    IN  /\ here = RMul(base, RAdd(ROne, RMul(<< (level - 1) \div 3, 1 >>,
                                             LEVEL_SPEED_INCREASE)))
        /\ level % 3 # 0 => next = here
        /\ level % 3 = 0 => next = RAdd(here, step)
        /\ RLe(here, next)

\* Level 4 on "hard": the multiplier has made its first step, 2.0 to 2.4.
C25_Witness ==
    /\ difficulty = "hard"
    /\ level_manager.current_level = 4
    /\ get_speed_multiplier(level_manager) = << 12, 5 >>

-----------------------------------------------------------------------------
(* SpecKinds: the first ticks of every level from 1 to MaxKindLevel, the   *)
(* scheduler being as advance_level left it at the start of the level,     *)
(* over MaxKindSteps TimeSteps.                                            *)

KindsInit ==
    /\ \E d \in Difficulties, level \in 1..MaxKindLevel :
         InitGame([reset_game(MenuShown(EmptyTable, MenuFrames), d) EXCEPT
                      !.level_manager = LevelAt(d, level)])
    /\ hist = NoneVal

KindsTick == PlayingTick(RunInputs(GameRec), RunBullets, MaxKindSteps)

KindsNext == KindsTick

SpecKinds == KindsInit /\ [][KindsNext]_vars

\* The unlock threshold of a kind in ENEMY_UNLOCKS.
UnlockLevel(kind) ==
    LET k == CHOOSE k \in 1..Len(ENEMY_UNLOCKS) :
                 InSeq(kind, ENEMY_UNLOCKS[k].types)
    IN  ENEMY_UNLOCKS[k].level

\* C26: every enemy of the game's list, spawned at the current level, is of
\* a kind whose unlock threshold is at most that level, and the pool
\* random.choice draws from is not empty when a spawn is due.
C26_SpawnedKindsAreUnlocked ==
    level_manager # NoneVal =>
        /\ \A j \in DOMAIN enemies :
             UnlockLevel(enemies[j].type) <= level_manager.current_level
        /\ can_spawn_enemy(level_manager, now) =>
             /\ SpawnPool(level_manager) # {}
             /\ \A kind \in SpawnPool(level_manager) :
                  UnlockLevel(kind) <= level_manager.current_level

\* Level 4: a stuffing, unlocked at this level, is active.
C26_Witness ==
    /\ level_manager.current_level = 4
    /\ \E j \in DOMAIN enemies :
         /\ enemies[j].type = "stuffing"
         /\ enemies[j].active


\* C27: LevelTransition is left only for Playing, by the first update at
\* least LEVEL_TRANSITION_DURATION after level_transition_time; that step
\* adds one to current_level, sets enemies_spawned to 0 and enemies_in_level
\* to the target of the new level; no other step of a run changes
\* current_level.
C27_TransitionIsTimeGated ==
    [][ LET elapsed == now - level_transition_time
            lm == level_manager
            lm2 == level_manager'
        IN  /\ ( state = "level_transition" /\ state' # "level_transition" ) =>
                 /\ state' = "playing"
                 /\ elapsed >= LEVEL_TRANSITION_DURATION
                 /\ lm2.current_level = lm.current_level + 1
                 /\ lm2.enemies_spawned = 0
                 /\ lm2.enemies_in_level = get_enemies_for_level(lm2)
            /\ ( state = "level_transition" /\ state' = "level_transition" ) =>
                 /\ elapsed < LEVEL_TRANSITION_DURATION
                 /\ lm2 = lm
            /\ ( /\ state \in { "playing", "level_transition" }
                 /\ lm2.current_level # lm.current_level ) =>
                 /\ state = "level_transition"
                 /\ lm2.current_level > lm.current_level ]_vars

\* Level 2 has just begun: nothing spawned yet, the transition behind.
C27_Witness ==
    /\ state = "playing"
    /\ level_manager.current_level = 2
    /\ level_manager.enemies_spawned = 0
    /\ level_transition_time > 0
    /\ now - level_transition_time >= LEVEL_TRANSITION_DURATION


\* The fields of the game an update of the level transition may change.
TransitionFields == { "level_manager", "state" }

\* C28: Game.update in Menu, NameInput, GameOver or HighScores returns the
\* game as it was; in LevelTransition it changes no field but the
\* scheduler and the state, and those only once the duration has elapsed,
\* to the next level and to Playing.
C28_IdleStatesDoNotSimulate ==
    LET after == update(GameRec, NoneVal)
    IN  /\ state \in { "menu", "name_input", "game_over", "high_scores" } =>
             after = GameRec
        /\ state = "level_transition" =>
             /\ \A f \in (DOMAIN GameRec) \ TransitionFields :
                  after[f] = GameRec[f]
             /\ IF now - level_transition_time >= LEVEL_TRANSITION_DURATION
                  THEN /\ after.state = "playing"
                       /\ after.level_manager = advance_level(level_manager)
                  ELSE after = GameRec

\* A run has ended in NameInput with enemies, bullets and a score left.
C28_Witness ==
    /\ state = "name_input"
    /\ enemies # << >>
    /\ current_score > 0
    /\ lives <= 0

-----------------------------------------------------------------------------
(* SpecLoad: the score manager from load_high_scores on a file that is     *)
(* missing, unparsable, parsable to a value that is no mapping (a JSON     *)
(* list, null) or a saved table, under up to MaxLoadCalls calls of         *)
(* is_high_score, add_high_score and get_high_scores.  An exception a call *)
(* raises leaves Game.run: looping becomes FALSE.  hist is the kind of the *)
(* file, the number of calls made, whether one has raised, and the value   *)
(* the last is_high_score call returned.                                   *)

\* json.load results that are not a dict.
JsonList == [json |-> "list"]
JsonNull == [json |-> "null"]

\* The files at HIGH_SCORE_FILE: exists, parses (json.load does not raise),
\* and the value json.load returns.
ScoreFiles ==
    { [kind |-> "missing",    exists |-> FALSE, parses |-> FALSE, value |-> JsonNull],
      [kind |-> "unparsable", exists |-> TRUE,  parses |-> FALSE, value |-> JsonNull],
      [kind |-> "list",       exists |-> TRUE,  parses |-> TRUE,  value |-> JsonList],
      [kind |-> "null",       exists |-> TRUE,  parses |-> TRUE,  value |-> JsonNull],
      [kind |-> "empty",      exists |-> TRUE,  parses |-> TRUE,  value |-> EmptyTable],
      [kind |-> "full_hard",  exists |-> TRUE,  parses |-> TRUE,  value |-> FullHardTable] }

MalformedKinds == { "missing", "unparsable", "list", "null" }

\* ScoreManager.load_high_scores
load_high_scores(file) ==
    IF file.exists
      THEN IF file.parses THEN file.value     \* return json.load(f)
           ELSE EmptyTable                    \* except Exception
      ELSE EmptyTable

\* self.high_scores.get(...) and self.high_scores[difficulty] = [] raise
\* AttributeError or TypeError on a value that is not a dict.
RaisesOnTable(hs) == "json" \in DOMAIN hs

LoadInit ==
    /\ \E file \in ScoreFiles :
         /\ InitGame(NewGame(load_high_scores(file)))
         /\ hist = [file |-> file.kind, calls |-> 0, failed |-> FALSE,
                    answer |-> FALSE]

\* The call raised: the exception ends Game.run.
LoadRaise ==
    /\ SetGame(Raise(GameRec))
    /\ hist' = [hist EXCEPT !.calls = @ + 1, !.failed = TRUE]

\* score_manager.is_high_score(score, difficulty)
LoadIsHighScore ==
    /\ looping
    /\ hist.calls < MaxLoadCalls
    /\ \E d \in ScoreDifficulties, score \in AddedScores :
         IF RaisesOnTable(high_scores) THEN LoadRaise
         ELSE /\ SetGame(GameRec)
              /\ hist' = [hist EXCEPT !.calls = @ + 1,
                                      !.answer = is_high_score(high_scores,
                                                               score, d)]

\* score_manager.add_high_score(name, score, difficulty, level)
LoadAddHighScore ==
    /\ looping
    /\ hist.calls < MaxLoadCalls
    /\ \E d \in ScoreDifficulties, score \in AddedScores :
         IF RaisesOnTable(high_scores) THEN LoadRaise
         ELSE /\ SetGame([GameRec EXCEPT !.high_scores =
                             add_high_score(@, <<"A">>, score, d, 1)])
              /\ hist' = [hist EXCEPT !.calls = @ + 1]

\* score_manager.get_high_scores(difficulty)
LoadGetHighScores ==
    /\ looping
    /\ hist.calls < MaxLoadCalls
    /\ IF RaisesOnTable(high_scores) THEN LoadRaise
       ELSE /\ SetGame(GameRec)
            /\ hist' = [hist EXCEPT !.calls = @ + 1]

LoadNext ==
    \/ LoadIsHighScore
    \/ LoadAddHighScore
    \/ LoadGetHighScores

SpecLoad == LoadInit /\ [][LoadNext]_vars

\* C29: with a missing or malformed file the score manager starts with the
\* empty table of every difficulty, and no call of is_high_score,
\* add_high_score or get_high_scores fails.
C29_MalformedFileGivesEmptyTable ==
    hist.file \in MalformedKinds =>
        /\ ~ hist.failed
        /\ looping
        /\ hist.calls = 0 => high_scores = EmptyTable

-----------------------------------------------------------------------------
(* SpecFall: the ticks, FallStep apart (the frame time of FPS = 60), of a  *)
(* run of any difficulty at the start of the first level and of level      *)
(* MaxFallLevel, until the clock shows MaxFallTime (no powerup is due       *)
(* before), with at most MaxFallEnemies enemies listed.  The player        *)
(* presses no key and stays away from the enemies.  hist is the vertical   *)
(* position y of every listed enemy after the last tick (every movement    *)
(* adds the speed to it: trackers are spawned without a player and move    *)
(* straight), whether the update loop of that tick removed an enemy that   *)
(* was still active, the number of enemies its bottom check caught, and    *)
(* whether the tick cost a life.                                           *)

FallLevels == { 1, MaxFallLevel }

\* Enemy.update, lines 73-75, on the vertical position.
BelowScreen(y) == ~ RLe(y, << SCREEN_HEIGHT, 1 >>)

\* check_enemies_reached_bottom, line 59: enemy.y >= SCREEN_HEIGHT - 10.
AtBottom(y) == RLe(<< SCREEN_HEIGHT - 10, 1 >>, y)

FallInit ==
    /\ \E d \in Difficulties, level \in FallLevels :
         InitGame([reset_game(MenuShown(EmptyTable, MenuFrames), d) EXCEPT
                      !.level_manager = LevelAt(d, level)])
    /\ hist = [ ys |-> << >>, uncaught |-> FALSE, caught |-> 0, cost |-> FALSE ]

\* The early inputs of a tick with no key held, in which no bullet or
\* powerup leaves the screen.
FallInputs(g) ==
    [ space        : {FALSE},
      bullets_off  : {0},
      ptype        : {"fire_rate"},
      powerups_off : {{}},
      etype        : IF can_spawn_enemy(g.level_manager, g.now)
                       THEN SpawnPool(g.level_manager) ELSE {"cranberry"},
      enemies_off  : {{}} ]

\* One iteration of Game.run: the update loop moves every listed enemy from
\* its position (that of spawn_enemy, y = -height, for the enemy the tick
\* spawns) by its speed, and the outcome of the tests on the positions
\* follows from them.
FallTick ==
    /\ looping
    /\ state = "playing"
    /\ \E e \in FallInputs(GameRec) :
         LET sp  == spawn_next_enemy(level_manager, now, NoneVal, e.etype)
             es  == IF sp.enemy # NoneVal
                      THEN Append(enemies,
                                  [sp.enemy EXCEPT
                                     !.speed = RMul(@, enemy_speed_modifier)])
                      ELSE enemies
             ys0 == IF sp.enemy # NoneVal
                      THEN Append(hist.ys, << - ENEMY_SIZE[sp.enemy.type], 1 >>)
                      ELSE hist.ys
             ys1 == [ j \in 1..Len(es) |-> RAdd(ys0[j], es[j].speed) ]
             off == { j \in 1..Len(es) : BelowScreen(ys1[j]) }
             ys2 == RemoveAt(ys1, off \cup Inactive(es))
             bottom == { j \in 1..Len(ys2) : AtBottom(ys2[j]) }
             inp == WithLate([e EXCEPT !.enemies_off = off], {}, {}, {}, bottom)
             pre == tick_enemies(tick_powerups(tick_player(GameRec, inp), inp),
                                 inp)
             g   == update(GameRec, inp)
         IN  /\ Len(es) <= MaxFallEnemies
             /\ FrameOf(g, FallStep, MaxFallTime)
             /\ hist' = [ ys       |-> ys2,
                          uncaught |-> \E j \in off : es[j].active,
                          caught   |-> Cardinality({ j \in bottom :
                                                       pre.enemies[j].active }),
                          cost     |-> g.lives < lives ]

FallNext == FallTick

SpecFall == FallInit /\ [][FallNext]_vars

\* C30: an enemy that moves past the bottom boundary is caught by the
\* bottom-escape check, in a tick that costs a life; none is removed, still
\* active, by the update loop before the check has seen it.
C30_NoEnemyLeavesUncaught ==
    /\ ~ hist.uncaught
    /\ hist.caught > 0 => hist.cost

-----------------------------------------------------------------------------
\* C31: lives is never negative, and is at least 1 while the state is
\* playing or level_transition.
C31_LivesStayInRange ==
    /\ lives >= 0
    /\ state \in { "playing", "level_transition" } => lives >= 1

-----------------------------------------------------------------------------
\* C32: the speed of every listed enemy is its unslowed spawn speed
\* (catalog speed x level multiplier) or that value x
\* SLOW_ENEMIES_MODIFIER: no enemy is slowed twice.
C32_EnemySlowedAtMostOnce ==
    \A j \in DOMAIN enemies :
        \/ enemies[j].speed = LevelSpeed(enemies[j], level_manager)
        \/ enemies[j].speed = RMul(LevelSpeed(enemies[j], level_manager),
                                   SLOW_ENEMIES_MODIFIER)

-----------------------------------------------------------------------------
\* A name that no record of the tables of SpecScores carries: it marks the
\* record of a further add_high_score call.
MarkName == << "Q" >>

\* The scores asked about: those of the records explored, and their
\* neighbours.
AskedScores == { 39, 40, 41, 49, 50, 51, 59, 60, 61 }

\* The record marked MarkName is in the table of d after
\* add_high_score(MarkName, s, d, 1) on the current table.
KeptAfterAdd(s, d) ==
    LET after == get_high_scores(add_high_score(high_scores, MarkName, s, d, 1), d)
    IN  \E i \in DOMAIN after : after[i].name = MarkName /\ after[i].score = s

\* C33: on every table reached by add_high_score calls (sorted, at most
\* MAX_HIGH_SCORES records), is_high_score(s, d) holds exactly when the
\* record of score s that add_high_score adds is still in the table of d
\* afterwards; a score equal to the lowest entry of a full table is
\* rejected, and its record is the one add_high_score drops.
C33_IsHighScoreAgreesWithAdd ==
    \A d \in Difficulties, s \in AskedScores :
        is_high_score(high_scores, s, d) <=> KeptAfterAdd(s, d)

\* A full table whose lowest entry is 50 (after records of 40 and 60 were
\* added): 50 is rejected and its record would be dropped, 51 qualifies.
C33_Witness ==
    /\ hist.adds > 0
    /\ Len(high_scores.hard) = MAX_HIGH_SCORES
    /\ high_scores.hard[1].score = 60
    /\ high_scores.hard[MAX_HIGH_SCORES].score = 50
    /\ ~ is_high_score(high_scores, 50, "hard")
    /\ ~ KeptAfterAdd(50, "hard")
    /\ is_high_score(high_scores, 51, "hard")
    /\ KeptAfterAdd(51, "hard")

-----------------------------------------------------------------------------
(* SpecShoot: the first MaxShootFrames frames of a run started when the     *)
(* clock shows ShootStart * ShootStep, with frames ShootStep apart (shorter *)
(* than the shoot cooldown).  In every frame the fire key may be pressed    *)
(* (handle_playing_events) and may be held (update_playing); the first      *)
(* update spawns a fire_rate powerup, which the player may collect.  No     *)
(* bullet, enemy or powerup leaves the screen or meets anything in these    *)
(* frames.  hist lists the time of creation of every bullet and the         *)
(* player's cooldown_modifier at that time.                                 *)

ShootInputs(g) ==
    [ space        : BOOLEAN,
      bullets_off  : {0},
      ptype        : {"fire_rate"},
      powerups_off : {{}},
      etype        : IF can_spawn_enemy(g.level_manager, g.now)
                       THEN SpawnPool(g.level_manager) ELSE {"cranberry"},
      enemies_off  : {{}} ]

ShootInit ==
    /\ \E d \in Difficulties :
         InitGame(reset_game([MenuShown(EmptyTable, MenuFrames) EXCEPT
                                 !.now = ShootStart * ShootStep], d))
    /\ hist = [times |-> << >>, mods |-> << >>]

\* hist after an operation that took the game from g to g1 at g.now.
ShotsAfter(g, g1) ==
    IF Len(g1.bullets) > Len(g.bullets)
      THEN [times |-> Append(hist.times, g.now),
            mods  |-> Append(hist.mods, g1.player.cooldown_modifier)]
      ELSE hist

\* handle_playing_events with a KEYDOWN of the fire key.
ShootKeyDown ==
    /\ looping
    /\ state = "playing"
    /\ LET g == handle_playing_events(GameRec, "space")
       IN  /\ SetGame(g)
           /\ hist' = ShotsAfter(GameRec, g)

\* update_playing, then clock.tick: the next frame is ShootStep later.
ShootTick ==
    /\ looping
    /\ state = "playing"
    /\ \E e \in ShootInputs(GameRec) :
         LET b == BeforePasses(GameRec, e)
         IN  \E at_powerup \in SUBSET OldPowerups(GameRec, Len(b.powerups)) :
               LET inp == WithLate(e, at_powerup, {}, {}, {})
                   g == update(GameRec, inp)
               IN  /\ FrameOf(g, ShootStep,
                              (ShootStart + MaxShootFrames) * ShootStep)
                   /\ hist' = ShotsAfter(GameRec, tick_player(GameRec, inp))

ShootNext ==
    \/ ShootKeyDown
    \/ ShootTick

SpecShoot == ShootInit /\ [][ShootNext]_vars

\* C34: any two consecutive bullets of a run are created at least
\* shoot_cooldown x cooldown_modifier apart, the modifier being that of
\* the second shot; so a frame in which the fire key is both pressed and
\* held creates at most one bullet.
C34_BulletsCooldownApart ==
    \A i \in 2..Len(hist.times) :
        LET m == hist.mods[i]
        IN  (hist.times[i] - hist.times[i - 1]) * m[2]
                >= PLAYER_SHOOT_COOLDOWN * m[1]

\* Two bullets four frames (160 ms) apart, the second with the modifier of
\* a collected fire_rate powerup, and a third shot requested in the frame
\* of the second had no effect.
C34_Witness ==
    /\ Len(hist.times) = 2
    /\ hist.times[2] - hist.times[1] = 4 * ShootStep
    /\ hist.mods[2] = FIRE_RATE_MODIFIER
    /\ now = hist.times[2]
    /\ handle_playing_events(GameRec, "space") = GameRec

-----------------------------------------------------------------------------
(* SpecMove: the player of a run under any sequence of move_left and       *)
(* move_right calls (update_playing calls them for the held keys, both in  *)
(* one tick when both directions are held) and up to MaxBoosts calls of    *)
(* apply_powerup_effect with a speed-boost powerup.  hist is the player's  *)
(* position (x, y) and the number of those calls.                          *)

PLAYER_WIDTH == 100
PLAYER_HEIGHT == 80
PLAYER_SPEED == 6

\* Player.__init__, lines 18-19.
PlayerPosition ==
    [ x |-> << SCREEN_WIDTH \div 2 - PLAYER_WIDTH \div 2, 1 >>,
      y |-> SCREEN_HEIGHT - PLAYER_HEIGHT - 10 ]

\* move_left without the bound (a variant the position is checked against).
move_left_NoClamp(pos, p) ==
    [pos EXCEPT !.x = RAdd(@, RMul(<< - PLAYER_SPEED, 1 >>, p.speed_modifier))]

\* Player.move_left on the position pos of player p.
move_left(pos, p) ==
    LET x == RAdd(pos.x, RMul(<< - PLAYER_SPEED, 1 >>, p.speed_modifier))
    IN  [pos EXCEPT !.x = IF ~ RLe(<< 0, 1 >>, x) THEN << 0, 1 >> ELSE x]

\* Player.move_right on the position pos of player p.
move_right(pos, p) ==
    LET x == RAdd(pos.x, RMul(<< PLAYER_SPEED, 1 >>, p.speed_modifier))
        right == << SCREEN_WIDTH - PLAYER_WIDTH, 1 >>
    IN  [pos EXCEPT !.x = IF ~ RLe(x, right) THEN right ELSE x]

MoveInit ==
    /\ InitGame(reset_game(MenuShown(EmptyTable, MenuFrames), "easy"))
    /\ hist = [x |-> PlayerPosition.x, y |-> PlayerPosition.y, boosts |-> 0]

\* self.player.move_left()
MoveLeft ==
    /\ state = "playing"
    /\ hist' = move_left(hist, player)
    /\ SetGame(GameRec)

\* self.player.move_right()
MoveRight ==
    /\ state = "playing"
    /\ hist' = move_right(hist, player)
    /\ SetGame(GameRec)

\* self.apply_powerup_effect(powerup, current_time) with a speed-boost
\* powerup.
MoveBoost ==
    /\ state = "playing"
    /\ hist.boosts < MaxBoosts
    /\ SetGame(apply_powerup_effect(GameRec, spawn_powerup("speed_boost"), now))
    /\ hist' = [hist EXCEPT !.boosts = @ + 1]

MoveNext ==
    \/ MoveLeft
    \/ MoveRight
    \/ MoveBoost

SpecMove == MoveInit /\ [][MoveNext]_vars

\* C35: the player's x stays within 0 and SCREEN_WIDTH - width under any
\* sequence of move_left and move_right calls with any speed modifier, and
\* the player's y stays the one given at creation.
C35_PlayerStaysOnScreen ==
    /\ RLe(<< 0, 1 >>, hist.x)
    /\ RLe(hist.x, << SCREEN_WIDTH - PLAYER_WIDTH, 1 >>)
    /\ hist.y = SCREEN_HEIGHT - PLAYER_HEIGHT - 10

\* A boosted player stopped at the left edge: no number of whole moves
\* leads from the start position to x = 0.
C35_Witness ==
    /\ hist.x = << 0, 1 >>
    /\ hist.boosts > 0
    /\ player.speed_modifier = RPow(SPEED_BOOST_MODIFIER, hist.boosts)

-----------------------------------------------------------------------------
(* SpecReset: runs with powerups, started after MenuWait TimeSteps of menu *)
(* and restarted at any time up to MaxResetSteps later: from the menu      *)
(* (first start, or after the run was abandoned with ESC) and with retry   *)
(* after game over.  hist describes the game before the last               *)
(* reset_game in short: the state it was called in, the score, whether a   *)
(* life was lost, the player's effects, and whether enemies were slowed    *)
(* and bullets and enemies listed.                                         *)

\* The game g in short, as hist keeps it.
BeforeReset(g) ==
    [ state   |-> g.state,
      score   |-> g.current_score,
      hurt    |-> g.player # NoneVal
                    /\ g.lives < DIFFICULTY_SETTINGS[g.difficulty].lives,
      effects |-> IF g.player = NoneVal THEN { }
                  ELSE DOMAIN g.player.active_effects,
      slowed  |-> g.enemy_speed_modifier # ROne,
      bullets |-> g.bullets # << >>,
      enemies |-> g.enemies # << >> ]

ResetInit ==
    /\ \E table \in InitialTables :
         InitGame(MenuShown(table, MenuWait))
    /\ hist = NoneVal

\* handle_menu_events: a difficulty button is clicked.
ResetMenuClick ==
    /\ looping
    /\ state = "menu"
    /\ \E d \in Difficulties :
         LET g == handle_menu_events(GameRec, d)
         IN  /\ SetGame(g)
             /\ hist' = IF g.state = "playing" THEN BeforeReset(GameRec)
                                               ELSE hist

\* handle_game_over_events: the retry button is clicked.
ResetRetry ==
    /\ looping
    /\ state = "game_over"
    /\ LET g == handle_game_over_events(GameRec, "retry")
       IN  /\ SetGame(g)
           /\ hist' = IF g.state = "playing" THEN BeforeReset(GameRec)
                                             ELSE hist

\* handle_playing_events: ESC abandons the run.
ResetEscape ==
    /\ looping
    /\ state = "playing"
    /\ SetGame(handle_playing_events(GameRec, "escape"))
    /\ UNCHANGED hist

ResetUpdatePlaying ==
    PlayingTick(PowerInputs(GameRec), RunBullets, MenuWait + MaxResetSteps)

ResetUpdateIdle == IdleTick(MenuWait + MaxResetSteps)

ResetNext ==
    \/ ResetMenuClick
    \/ ResetRetry
    \/ ResetEscape
    \/ ResetUpdatePlaying
    \/ ResetUpdateIdle
    \/ NameInputEvent

SpecReset == ResetInit /\ [][ResetNext]_vars

\* C36: every step that starts a run from the menu or from game over
\* (reset_game) leaves the state playing with score 0, the lives of the
\* difficulty, level 1 with no enemy spawned and the level-1 target, no
\* bullets, enemies or powerups, a new player (no effects, neutral
\* modifiers), a neutral enemy speed modifier with no expiration, and the
\* high-score table as it was.
C36_ResetStartsFresh ==
    [][ ( state \in { "menu", "game_over" } /\ state' = "playing" ) =>
          /\ current_score' = 0
          /\ lives' = DIFFICULTY_SETTINGS[difficulty'].lives
          /\ level_manager'.difficulty = difficulty'
          /\ level_manager'.current_level = 1
          /\ level_manager'.enemies_spawned = 0
          /\ level_manager'.enemies_in_level
               = get_enemies_for_level(LevelManager(difficulty'))
          /\ level_manager'.last_spawn_time = 0
          /\ bullets' = << >>
          /\ enemies' = << >>
          /\ powerups' = << >>
          /\ last_powerup_spawn' = 0
          /\ player'.active_effects = << >>
          /\ player'.effect_stacks = << >>
          /\ player'.speed_modifier = ROne
          /\ player'.cooldown_modifier = ROne
          /\ player'.last_shot = 0
          /\ enemy_speed_modifier' = ROne
          /\ enemy_speed_modifier_expiration' = 0
          /\ high_scores' = high_scores ]_vars

\* A run with points, a lost life, a collected fire_rate powerup and listed
\* bullets and enemies was abandoned with ESC, and the run restarted from
\* the menu is fresh.
C36_Witness ==
    /\ hist # NoneVal
    /\ hist.state = "menu"
    /\ hist.score > 0
    /\ hist.hurt
    /\ "fire_rate" \in hist.effects
    /\ hist.bullets
    /\ hist.enemies
    /\ state = "playing"
    /\ level_manager.last_spawn_time = 0
    /\ player = Player
    /\ current_score = 0
    /\ lives = DIFFICULTY_SETTINGS[difficulty].lives
    /\ bullets = << >>
    /\ enemies = << >>

=============================================================================
